---- MODULE Spec2Model ----
(***************************************************************************)
(* ManifoldBuilder of manifold-wle: the triangle list, the adjacency links *)
(* between triangle edges, the edge auto-connection strategies, the 1-to-4 *)
(* subdivision, the connectivity check and the finalization pass.          *)
(*                                                                         *)
(* A triangle is identified by its index in the builder's list (0-based,   *)
(* as in the code).  Positions are integer vectors: every coordinate that  *)
(* the model produces is a small integer, for which the float arithmetic   *)
(* of the code ((a + b) * 0.5, bilinear interpolation) is exact.           *)
(***************************************************************************)
EXTENDS Integers, Sequences, FiniteSets, TLC

VARIABLES triangles, last, out

vars == <<triangles, last, out>>

(***************************************************************************)
(* Bounds of the model.                                                    *)
(***************************************************************************)
\* addTriangle is taken while the list is shorter than this
MaxTri == 3
\* addSubdivQuad is taken while the list is at most this long
MaxQuadBase == 1
\* subDivide4 is taken on lists of at most this many triangles
MaxSubdivTri == 3
\* the operations with explicit arguments (subsets, edge lists, pools) are
\* taken on lists of at most this many triangles
MaxPick == 3
\* longest subset handed to autoConnectAllEdgesOfSubset
MaxSubsetLen == 2
\* longest edge list handed to autoConnectEdges(edges, pool)
MaxEdgeListLen == 2
\* longest pool handed to autoConnectEdges(edges, pool)
MaxPoolLen == 1

Max(a, b) == IF a > b THEN a ELSE b

(***************************************************************************)
(* Triangle: three corner positions, a material identifier, the helper     *)
(* scratch index and one adjacency link per edge.  Edge i joins corner i   *)
(* and corner (i + 1) % 3.  A link is NoEdge or [edge, tri]: the other     *)
(* triangle and the index of its edge.                                     *)
(***************************************************************************)
NoEdge == <<>>

Edges == 0..2

NextIdx(i) == (i + 1) % 3

NewTriangle(p0, p1, p2, helper) ==
    [ pos        |-> <<p0, p1, p2>>,
      materialID |-> 0,
      helper     |-> helper,
      edges      |-> <<NoEdge, NoEdge, NoEdge>> ]

numTri(ts) == Len(ts)

Tri(ts, t) == ts[t + 1]

getPosition(ts, t, v) == Tri(ts, t).pos[v + 1]

getConnectedEdge(ts, t, e) == Tri(ts, t).edges[e + 1]

isEdgeConnected(ts, t, e) == getConnectedEdge(ts, t, e) # NoEdge

SetLink(ts, t, e, link) == [ts EXCEPT ![t + 1].edges[e + 1] = link]

\* triangle.disconnectEdge(e): clears the link and the partner's link back
disconnectEdge(ts, t, e) ==
    LET link == getConnectedEdge(ts, t, e) IN
    IF link = NoEdge THEN ts
    ELSE SetLink(SetLink(ts, link.tri, link.edge, NoEdge), t, e, NoEdge)

\* connectEdge that only writes the two links and leaves the previous
\* partners of both edges pointing at them
connectEdgeNoUnlink(ts, t, e, oe, o) ==
    SetLink(SetLink(ts, t, e, [edge |-> oe, tri |-> o]),
            o, oe, [edge |-> e, tri |-> t])

\* triangle.connectEdge(e, oe, o): links edge e of t with edge oe of o, both
\* ways; whatever either edge was linked to before is unlinked first
connectEdge(ts, t, e, oe, o) ==
    LET ts1 == disconnectEdge(ts, t, e)
        ts2 == disconnectEdge(ts1, o, oe)
    IN SetLink(SetLink(ts2, t, e, [edge |-> oe, tri |-> o]),
               o, oe, [edge |-> e, tri |-> t])

NoMatch == -1

\* getMatchingEdge that takes an edge only when it runs the opposite way
getMatchingEdgeOpposite(a, b, oPos0, oPos1, oPos2) ==
    IF b = oPos0 /\ a = oPos1 THEN 0
    ELSE IF b = oPos1 /\ a = oPos2 THEN 1
    ELSE IF b = oPos2 /\ a = oPos0 THEN 2
    ELSE -1

\* getMatchingEdge(a, b, oPos0, oPos1, oPos2): the first edge of the other
\* triangle whose two end points are a and b, in either order
getMatchingEdge(a, b, oPos0, oPos1, oPos2) ==
    IF (a = oPos0 /\ b = oPos1) \/ (b = oPos0 /\ a = oPos1) THEN 0
    ELSE IF (a = oPos1 /\ b = oPos2) \/ (b = oPos1 /\ a = oPos2) THEN 1
    ELSE IF (a = oPos2 /\ b = oPos0) \/ (b = oPos2 /\ a = oPos0) THEN 2
    ELSE NoMatch

\* triangle.getMatchingEdge(a, b, otherTriangle), a and b corner indices
triGetMatchingEdge(ts, t, a, b, o) ==
    getMatchingEdge(getPosition(ts, t, a), getPosition(ts, t, b),
                    getPosition(ts, o, 0), getPosition(ts, o, 1),
                    getPosition(ts, o, 2))

(***************************************************************************)
(* disconnectAllEdges                                                      *)
(***************************************************************************)
RECURSIVE disconnectAllFrom(_, _)
disconnectAllFrom(ts, t) ==
    IF t >= numTri(ts) THEN ts
    ELSE disconnectAllFrom(
            disconnectEdge(disconnectEdge(disconnectEdge(ts, t, 0), t, 1), t, 2),
            t + 1)

disconnectAllEdges(ts) == disconnectAllFrom(ts, 0)

(***************************************************************************)
(* addTriangle with positions only.                                        *)
(***************************************************************************)
\* addTriangle that gives every triangle the helper 0
addTriangleHelperZero(ts, p0, p1, p2) ==
    Append(ts, NewTriangle(p0, p1, p2, 0))

addTriangle(ts, p0, p1, p2) ==
    Append(ts, NewTriangle(p0, p1, p2, numTri(ts)))

(***************************************************************************)
(* autoConnectAllEdgesOfSubset(S): S is a sequence of triangle indices.    *)
(***************************************************************************)
MissingCount(missing) ==
    (IF missing[1] THEN 1 ELSE 0) + (IF missing[2] THEN 1 ELSE 0)
        + (IF missing[3] THEN 1 ELSE 0)

\* the three flags, edge e at position e + 1
MissingEdges(ts, t) ==
    << ~isEdgeConnected(ts, t, 0), ~isEdgeConnected(ts, t, 1),
       ~isEdgeConnected(ts, t, 2) >>

\* the triangle the inner loop takes as the other triangle at position oti
subsetOtherTriangle(S, oti) == oti

\* lines 156-171: st = [ts, missing, left]
RECURSIVE subsetEdgeLoop(_, _, _, _)
subsetEdgeLoop(st, t, o, edgeIdx) ==
    IF edgeIdx >= 3 THEN st
    ELSE IF ~st.missing[edgeIdx + 1] THEN subsetEdgeLoop(st, t, o, edgeIdx + 1)
    ELSE LET match == triGetMatchingEdge(st.ts, t, edgeIdx, NextIdx(edgeIdx), o) IN
         IF match = NoMatch THEN subsetEdgeLoop(st, t, o, edgeIdx + 1)
         ELSE LET st2 == [ ts      |-> connectEdge(st.ts, o, match, edgeIdx, t),
                           missing |-> [st.missing EXCEPT ![edgeIdx + 1] = FALSE],
                           left    |-> st.left - 1 ]
              IN IF st2.left = 0 THEN st2
                 ELSE subsetEdgeLoop(st2, t, o, edgeIdx + 1)

\* lines 133-176
RECURSIVE subsetOtherLoop(_, _, _, _)
subsetOtherLoop(st, S, t, oti) ==
    IF oti >= Len(S) THEN st.ts
    ELSE LET o == subsetOtherTriangle(S, oti) IN
         IF MissingCount(MissingEdges(st.ts, o)) = 0
         THEN subsetOtherLoop(st, S, t, oti + 1)
         ELSE LET st2 == subsetEdgeLoop(st, t, o, 0) IN
              IF st2.left = 0 THEN st2.ts
              ELSE subsetOtherLoop(st2, S, t, oti + 1)

\* lines 102-177
RECURSIVE subsetLoop(_, _, _)
subsetLoop(ts, S, ti) ==
    IF ti >= Len(S) THEN ts
    ELSE LET t       == S[ti + 1]
             missing == MissingEdges(ts, t)
             left    == MissingCount(missing)
         IN IF left = 0 THEN subsetLoop(ts, S, ti + 1)
            ELSE subsetLoop(
                    subsetOtherLoop([ts |-> ts, missing |-> missing, left |-> left],
                                    S, t, ti + 1),
                    S, ti + 1)

autoConnectAllEdgesOfSubset(ts, S) ==
    IF Len(S) = 0 THEN ts ELSE subsetLoop(ts, S, 0)

RECURSIVE FirstIndices(_)
RECURSIVE IndexRange(_, _)
IndexRange(a, b) ==
    IF a > b THEN <<>>
    ELSE IF a = b THEN <<a>>
    ELSE IndexRange(a, (a + b) \div 2) \o IndexRange((a + b) \div 2 + 1, b)

FirstIndices(n) == IndexRange(0, n - 1)

\* this.triangles, as the sequence of its indices
AllTriangles(ts) == FirstIndices(numTri(ts))

autoConnectAllEdges(ts) == autoConnectAllEdgesOfSubset(ts, AllTriangles(ts))

(***************************************************************************)
(* autoConnectEdges(edges, connectableTriangles): edges is a sequence of   *)
(* <<triangle, edgeIdx>>, the pool a sequence of triangle indices.  The    *)
(* result is [ts, err]: the links made before a throw stay made.           *)
(***************************************************************************)
\* lines 194-205: the first pool triangle, other than t, with a matching edge
RECURSIVE edgeListPoolLoop(_, _, _, _, _)
edgeListPoolLoop(ts, t, edgeIdx, pool, k) ==
    IF k > Len(pool) THEN [ts |-> ts, disconnected |-> TRUE]
    ELSE LET o == pool[k] IN
         IF o = t THEN edgeListPoolLoop(ts, t, edgeIdx, pool, k + 1)
         ELSE LET a     == edgeIdx
                  b     == IF edgeIdx = 2 THEN 0 ELSE edgeIdx + 1
                  match == triGetMatchingEdge(ts, t, a, b, o)
              IN IF match # NoMatch
                 THEN [ts |-> connectEdge(ts, o, match, edgeIdx, t),
                       disconnected |-> FALSE]
                 ELSE edgeListPoolLoop(ts, t, edgeIdx, pool, k + 1)

\* lines 186-210
RECURSIVE edgeListLoop(_, _, _, _)
edgeListLoop(ts, edges, pool, k) ==
    IF k > Len(edges) THEN [ts |-> ts, err |-> ""]
    ELSE LET t       == edges[k][1]
             edgeIdx == edges[k][2]
         IN IF getConnectedEdge(ts, t, edgeIdx) # NoEdge
            THEN edgeListLoop(ts, edges, pool, k + 1)
            ELSE LET r == edgeListPoolLoop(ts, t, edgeIdx, pool, 1) IN
                 IF r.disconnected
                 THEN [ts |-> r.ts, err |-> "Could not auto-connect edge"]
                 ELSE edgeListLoop(r.ts, edges, pool, k + 1)

autoConnectEdgesList(ts, edges, pool) == edgeListLoop(ts, edges, pool, 1)

(***************************************************************************)
(* Flood-fill autoConnectEdges() and connectTriangles.                     *)
(***************************************************************************)
\* lines 1046-1062: st = [ts, missing, left, queue]
RECURSIVE floodEdgeLoop(_, _, _, _)
floodEdgeLoop(st, t, o, edgeIdx) ==
    IF edgeIdx >= 3 THEN st
    ELSE IF ~st.missing[edgeIdx + 1] THEN floodEdgeLoop(st, t, o, edgeIdx + 1)
    ELSE LET match == triGetMatchingEdge(st.ts, t, edgeIdx, NextIdx(edgeIdx), o) IN
         IF match = NoMatch THEN floodEdgeLoop(st, t, o, edgeIdx + 1)
         ELSE LET st2 == [ ts      |-> connectEdge(st.ts, o, match, edgeIdx, t),
                           missing |-> [st.missing EXCEPT ![edgeIdx + 1] = FALSE],
                           left    |-> st.left - 1,
                           queue   |-> Append(st.queue, o) ]
              IN IF st2.left = 0 THEN st2
                 ELSE floodEdgeLoop(st2, t, o, edgeIdx + 1)

\* lines 1034-1067
RECURSIVE floodScanLoop(_, _, _, _)
floodScanLoop(st, visited, t, oti) ==
    IF oti >= numTri(st.ts) THEN st
    ELSE IF oti \in visited THEN floodScanLoop(st, visited, t, oti + 1)
    ELSE LET st2 == floodEdgeLoop(st, t, oti, 0) IN
         IF st2.left = 0 THEN st2
         ELSE floodScanLoop(st2, visited, t, oti + 1)

\* connectTriangles(ti, triangles, visitedTriangles): fs = [ts, visited]
RECURSIVE connectTriangles(_, _)
RECURSIVE floodVisitQueue(_, _, _)
floodVisitQueue(fs, queue, k) ==
    IF k > Len(queue) THEN fs
    ELSE floodVisitQueue(connectTriangles(queue[k], fs), queue, k + 1)

connectTriangles(ti, fs) ==
    IF ti \in fs.visited THEN fs
    ELSE LET visited == fs.visited \cup {ti}
             missing == MissingEdges(fs.ts, ti)
             left    == MissingCount(missing)
         IN IF left = 0 THEN [ts |-> fs.ts, visited |-> visited]
            ELSE LET st == floodScanLoop(
                               [ts |-> fs.ts, missing |-> missing, left |-> left,
                                queue |-> <<>>],
                               visited, ti, 0)
                 IN floodVisitQueue([ts |-> st.ts, visited |-> visited], st.queue, 1)

isAllSet(visited, n) == \A i \in 0..(n - 1) : i \in visited

\* flood-fill autoConnectEdges without the final isAllSet test
autoConnectEdgesFloodNoCheck(ts) ==
    IF numTri(ts) = 0 THEN [ts |-> ts, visited |-> {}, err |-> ""]
    ELSE LET fs == connectTriangles(0, [ts |-> disconnectAllEdges(ts), visited |-> {}])
         IN [ts |-> fs.ts, visited |-> fs.visited, err |-> ""]

\* flood-fill autoConnectEdges without the initial disconnectAllEdges
autoConnectEdgesFloodKeep(ts) ==
    IF numTri(ts) = 0 THEN [ts |-> ts, visited |-> {}, err |-> ""]
    ELSE LET fs == connectTriangles(0, [ts |-> ts, visited |-> {}])
         IN [ ts      |-> fs.ts,
              visited |-> fs.visited,
              err     |-> IF isAllSet(fs.visited, numTri(ts)) THEN ""
                          ELSE "Could not connect all triangles" ]

\* lines 1132-1155: the result is [ts, visited, err]
autoConnectEdgesFlood(ts) ==
    IF numTri(ts) = 0 THEN [ts |-> ts, visited |-> {}, err |-> ""]
    ELSE LET fs == connectTriangles(0, [ts |-> disconnectAllEdges(ts), visited |-> {}])
         IN [ ts      |-> fs.ts,
              visited |-> fs.visited,
              err     |-> IF isAllSet(fs.visited, numTri(ts)) THEN ""
                          ELSE "Could not connect all triangles" ]

(***************************************************************************)
(* addSubdivQuad(tlPos, trPos, blPos, brPos, materialID, subDivisions).    *)
(***************************************************************************)
\* lines 316-324: bilinear interpolation of the four corners at column i of
\* row j; the weights are multiples of 1 / (subDivisions * subDivisions)
quadComponent(tl, tr, bl, br, s, i, j, k) ==
    (tl[k] * (s - i) * (s - j) + tr[k] * i * (s - j)
        + bl[k] * (s - i) * j + br[k] * i * j) \div (s * s)

quadPosition(tl, tr, bl, br, s, i, j) ==
    << quadComponent(tl, tr, bl, br, s, i, j, 1),
       quadComponent(tl, tr, bl, br, s, i, j, 2),
       quadComponent(tl, tr, bl, br, s, i, j, 3) >>

setMaterialID(ts, t, materialID) == [ts EXCEPT ![t + 1].materialID = materialID]

\* lines 343-366: the two triangles of each sub-quad of row j, the loop
\* state st = [ts, i]
RECURSIVE quadMakeRow(_, _, _, _, _, _, _, _)
quadMakeRow(st, tl, tr, bl, br, materialID, s, j) ==
    IF st.i >= s THEN st.ts
    ELSE LET i     == st.i
             p00   == quadPosition(tl, tr, bl, br, s, i, j)
             p10   == quadPosition(tl, tr, bl, br, s, i + 1, j)
             p01   == quadPosition(tl, tr, bl, br, s, i, j + 1)
             p11   == quadPosition(tl, tr, bl, br, s, i + 1, j + 1)
             tlTri == numTri(st.ts)
             brTri == tlTri + 1
             ts1   == addTriangle(addTriangle(st.ts, p00, p01, p10), p10, p01, p11)
             ts2   == setMaterialID(setMaterialID(ts1, tlTri, materialID),
                                    brTri, materialID)
         IN quadMakeRow([ts |-> connectEdge(ts2, tlTri, 1, 0, brTri),
                         i  |-> st.i + 1],
                        tl, tr, bl, br, materialID, s, j)

\* lines 342-367: the rows, the loop state st = [ts, j]
RECURSIVE quadMakeLoop(_, _, _, _, _, _, _)
quadMakeLoop(st, tl, tr, bl, br, materialID, s) ==
    IF st.j >= s THEN st.ts
    ELSE quadMakeLoop([ts |-> quadMakeRow([ts |-> st.ts, i |-> 0],
                                          tl, tr, bl, br, materialID, s, st.j),
                       j  |-> st.j + 1],
                      tl, tr, bl, br, materialID, s)

\* lines 372-385: links between neighbouring sub-quads of row j, the loop
\* state st = [ts, i]
RECURSIVE quadConnectRow(_, _, _, _)
quadConnectRow(st, startIdx, s, j) ==
    IF st.i >= s THEN st.ts
    ELSE LET i        == st.i
             tlOffset == startIdx + 2 * (j * s + i)
             brOffset == tlOffset + 1
             ts1      == IF j < s - 1
                         THEN connectEdge(st.ts, brOffset, 1, 2, tlOffset + s * 2)
                         ELSE st.ts
             ts2      == IF i < s - 1
                         THEN connectEdge(ts1, brOffset, 2, 0, brOffset + 1)
                         ELSE ts1
         IN quadConnectRow([ts |-> ts2, i |-> st.i + 1], startIdx, s, j)

\* lines 370-386: the rows, the loop state st = [ts, j]
RECURSIVE quadConnectLoop(_, _, _)
quadConnectLoop(st, startIdx, s) ==
    IF st.j >= s THEN st.ts
    ELSE quadConnectLoop([ts |-> quadConnectRow([ts |-> st.ts, i |-> 0],
                                                startIdx, s, st.j),
                          j  |-> st.j + 1],
                         startIdx, s)

\* addSubdivQuad without the links between the sub-quads
addSubdivQuadUnlinked(ts, tl, tr, bl, br, materialID, s) ==
    quadMakeLoop([ts |-> ts, j |-> 0], tl, tr, bl, br, materialID, s)

addSubdivQuad(ts, tl, tr, bl, br, materialID, s) ==
    quadConnectLoop(
        [ts |-> quadMakeLoop([ts |-> ts, j |-> 0], tl, tr, bl, br, materialID, s),
         j  |-> 0],
        numTri(ts), s)

(***************************************************************************)
(* subDivide4                                                              *)
(***************************************************************************)
\* getVertexMid on the position components
getVertexMid(a, b) ==
    << (a[1] + b[1]) \div 2, (a[2] + b[2]) \div 2, (a[3] + b[3]) \div 2 >>

\* subdivMake with the middle child stored first instead of last
subdivMakeCenterFirst(ts, new, t) ==
    LET i      == numTri(new)
        vert0  == getPosition(ts, t, 0)
        vert1  == getPosition(ts, t, 1)
        vert2  == getPosition(ts, t, 2)
        vert01 == getVertexMid(vert0, vert1)
        vert12 == getVertexMid(vert1, vert2)
        vert20 == getVertexMid(vert2, vert0)
        mTri   == NewTriangle(vert12, vert20, vert01, i)
        tTri   == NewTriangle(vert0, vert01, vert20, i + 1)
        blTri  == NewTriangle(vert01, vert1, vert12, i + 2)
        brTri  == NewTriangle(vert20, vert12, vert2, i + 3)
        new1   == new \o <<mTri, tTri, blTri, brTri>>
    IN connectEdge(connectEdge(connectEdge(new1, i, 0, 0, i + 3),
                               i, 1, 1, i + 1),
                   i, 2, 2, i + 2)

\* lines 450-481: the four children of triangle t, the middle one linked
subdivMake(ts, new, t) ==
    LET i      == numTri(new)
        vert0  == getPosition(ts, t, 0)
        vert1  == getPosition(ts, t, 1)
        vert2  == getPosition(ts, t, 2)
        vert01 == getVertexMid(vert0, vert1)
        vert12 == getVertexMid(vert1, vert2)
        vert20 == getVertexMid(vert2, vert0)
        tTri   == NewTriangle(vert0, vert01, vert20, i)
        blTri  == NewTriangle(vert01, vert1, vert12, i + 1)
        brTri  == NewTriangle(vert20, vert12, vert2, i + 2)
        mTri   == NewTriangle(vert12, vert20, vert01, i + 3)
        new1   == new \o <<tTri, blTri, brTri, mTri>>
    IN connectEdge(connectEdge(connectEdge(new1, i + 3, 0, 0, i + 2),
                               i + 3, 1, 1, i),
                   i + 3, 2, 2, i + 1)

\* lines 450-481: st = [new, t]
RECURSIVE subdivMakeLoop(_, _)
subdivMakeLoop(ts, st) ==
    IF st.t >= numTri(ts) THEN st.new
    ELSE subdivMakeLoop(ts, [new |-> subdivMake(ts, st.new, st.t), t |-> st.t + 1])

\* subdivConnectEdge that leaves the children of neighbouring originals apart
subdivConnectEdgeSkip(ts, new, t, edge) == new

\* lines 489-499: the links of the original edge `edge` of triangle t
subdivConnectEdge(ts, new, t, edge) ==
    LET edgeConnection == getConnectedEdge(ts, t, edge) IN
    IF edgeConnection = NoEdge THEN new
    ELSE LET i         == 4 * t
             otherEdge == edgeConnection.edge
             ot        == Tri(ts, edgeConnection.tri).helper * 4
             oaSubTri  == ot + otherEdge
             obSubTri  == ot + NextIdx(otherEdge)
         IN connectEdge(connectEdge(new, i + edge, edge, otherEdge, obSubTri),
                        i + NextIdx(edge), edge, otherEdge, oaSubTri)

\* lines 486-500: st = [new, t]
RECURSIVE subdivConnectLoop(_, _)
subdivConnectLoop(ts, st) ==
    IF st.t >= numTri(ts) THEN st.new
    ELSE subdivConnectLoop(
            ts,
            [ new |-> subdivConnectEdge(ts,
                          subdivConnectEdge(ts,
                              subdivConnectEdge(ts, st.new, st.t, 0), st.t, 1),
                          st.t, 2),
              t   |-> st.t + 1 ])

subDivide4(ts) ==
    subdivConnectLoop(ts,
        [new |-> subdivMakeLoop(ts, [new |-> <<>>, t |-> 0]), t |-> 0])

(***************************************************************************)
(* isConnected                                                             *)
(***************************************************************************)
pushIfConnected(ts, queue, t, e) ==
    IF isEdgeConnected(ts, t, e)
    THEN Append(queue, Tri(ts, getConnectedEdge(ts, t, e).tri).helper)
    ELSE queue

\* lines 599-614: the queue after the three edges of nextTri were looked at
pushConnected(ts, queue, nextTri) ==
    pushIfConnected(ts,
        pushIfConnected(ts, pushIfConnected(ts, queue, nextTri, 0), nextTri, 1),
        nextTri, 2)

\* lines 592-615: the triangles marked visited when the queue runs empty
RECURSIVE isConnectedLoop(_, _, _)
isConnectedLoop(ts, visited, queue) ==
    IF Len(queue) = 0 THEN visited
    ELSE IF queue[Len(queue)] \in visited
         THEN isConnectedLoop(ts, visited, SubSeq(queue, 1, Len(queue) - 1))
         ELSE isConnectedLoop(
                ts, visited \cup {queue[Len(queue)]},
                pushConnected(ts, SubSeq(queue, 1, Len(queue) - 1),
                              queue[Len(queue)]))

\* isConnected that only asks whether the walk marked any triangle
isConnectedAny(ts) == isConnectedLoop(ts, {}, <<0>>) # {}

\* the getter, for a list with at least one triangle
isConnected(ts) == isAllSet(isConnectedLoop(ts, {}, <<0>>), numTri(ts))

(***************************************************************************)
(* finalize(materialMap).  A material map is the sequence of its entries   *)
(* <<id, material>> in insertion order, the ids distinct.                  *)
(***************************************************************************)
NullMaterial == "null"

\* materialMap.get(materialID) ?? null
materialMapGet(materialMap, materialID) ==
    IF \E k \in 1..Len(materialMap) : materialMap[k][1] = materialID
    THEN LET k == CHOOSE k \in 1..Len(materialMap) : materialMap[k][1] = materialID
         IN materialMap[k][2]
    ELSE NullMaterial

GroupIndex(groups, material) ==
    IF \E g \in 1..Len(groups) : groups[g].material = material
    THEN CHOOSE g \in 1..Len(groups) : groups[g].material = material
    ELSE 0

\* the grouping loop with one group per material identifier
RECURSIVE groupTrianglesById(_, _, _, _)
groupTrianglesById(ts, materialMap, groups, t) ==
    IF t >= numTri(ts) THEN groups
    ELSE LET material == materialMapGet(materialMap, Tri(ts, t).materialID)
             same     == { g \in 1..Len(groups) :
                             Tri(ts, groups[g].triangles[1]).materialID
                                 = Tri(ts, t).materialID }
         IN groupTrianglesById(ts, materialMap,
                IF same # {}
                THEN [groups EXCEPT ![CHOOSE g \in same : TRUE].triangles = Append(@, t)]
                ELSE Append(groups, [material |-> material, triangles |-> <<t>>]),
                t + 1)

\* lines 635-646: groupedTris, its keys in the order of first insertion
RECURSIVE groupTriangles(_, _, _, _)
groupTriangles(ts, materialMap, groups, t) ==
    IF t >= numTri(ts) THEN groups
    ELSE LET material == materialMapGet(materialMap, Tri(ts, t).materialID)
             g        == GroupIndex(groups, material)
         IN groupTriangles(ts, materialMap,
                IF g # 0
                THEN [groups EXCEPT ![g].triangles = Append(@, t)]
                ELSE Append(groups, [material |-> material, triangles |-> <<t>>]),
                t + 1)

\* revMaterialMap.get(material): the id of the last entry holding the material
revMaterialMapGet(materialMap, material) ==
    LET ks == { k \in 1..Len(materialMap) : materialMap[k][2] = material }
        k  == CHOOSE k \in ks : \A k2 \in ks : k2 <= k
    IN materialMap[k][1]

\* the comparator of lines 35-52
compareMaterials(materialMap, a, b) ==
    IF a = NullMaterial THEN -1
    ELSE IF b = NullMaterial THEN 1
    ELSE LET aID == revMaterialMapGet(materialMap, a)
             bID == revMaterialMapGet(materialMap, b)
         IN IF aID < bID THEN -1 ELSE IF aID > bID THEN 1 ELSE 0

\* Array.prototype.sort under that comparator, as a stable insertion sort
RECURSIVE insertMaterial(_, _, _, _)
insertMaterial(materialMap, sorted, material, k) ==
    IF k > Len(sorted) THEN Append(sorted, material)
    ELSE IF compareMaterials(materialMap, material, sorted[k]) < 0
         THEN SubSeq(sorted, 1, k - 1) \o <<material>> \o SubSeq(sorted, k, Len(sorted))
         ELSE insertMaterial(materialMap, sorted, material, k + 1)

RECURSIVE sortMaterialsLoop(_, _, _, _)
sortMaterialsLoop(materialMap, materials, sorted, k) ==
    IF k > Len(materials) THEN sorted
    ELSE sortMaterialsLoop(materialMap, materials,
                           insertMaterial(materialMap, sorted, materials[k], 1),
                           k + 1)

\* the materials left in the order of the keys of groupedTris
sortMaterialsUnsorted(materials, materialMap) == materials

sortMaterials(materials, materialMap) ==
    sortMaterialsLoop(materialMap, materials, <<>>, 1)

MaxUint8 == 255
MaxUint16 == 65535

\* A JavaScript number that may pass 2^31 is the record [hi, lo] of the
\* integer hi * 2^16 + lo, with lo in 0..65535.
Num(n) == [hi |-> n \div (MaxUint16 + 1), lo |-> n % (MaxUint16 + 1)]

NumLeq(a, b) == a.hi < b.hi \/ (a.hi = b.hi /\ a.lo <= b.lo)

NumMax(a, b) == IF NumLeq(a, b) THEN b ELSE a

NumMinusOne(a) ==
    IF a.lo = 0 THEN [hi |-> a.hi - 1, lo |-> MaxUint16]
    ELSE [hi |-> a.hi, lo |-> a.lo - 1]

\* 0xFFFFFFFF
MAX_INDEX == [hi |-> MaxUint16, lo |-> MaxUint16]

\* the width of a buffer that was not made: 'Maximum index exceeded'
NoWidth == 0

\* makeSubmeshMapBuffer with the triangle count of the largest submesh taken
\* as the largest stored value
makeSubmeshMapBufferByCount(triCount, maxSubmeshTriCount, maxSubmeshIdx) ==
    LET maxNum == NumMax(maxSubmeshTriCount, maxSubmeshIdx) IN
    IF NumLeq(maxNum, Num(MaxUint8)) THEN 8
    ELSE IF NumLeq(maxNum, Num(MaxUint16)) THEN 16
    ELSE IF NumLeq(maxNum, MAX_INDEX) THEN 32
    ELSE NoWidth

\* makeSubmeshMapBuffer: the element width in bits of the array it returns,
\* NoWidth when it throws.  The arguments are [hi, lo] numbers.
makeSubmeshMapBuffer(triCount, maxSubmeshTriCount, maxSubmeshIdx) ==
    LET maxNum == NumMax(NumMinusOne(maxSubmeshTriCount), maxSubmeshIdx) IN
    IF NumLeq(maxNum, Num(MaxUint8)) THEN 8
    ELSE IF NumLeq(maxNum, Num(MaxUint16)) THEN 16
    ELSE IF NumLeq(maxNum, MAX_INDEX) THEN 32
    ELSE NoWidth

\* what an element of the given width keeps of a value
Wrap(width, value) ==
    IF width = 8 THEN value % (MaxUint8 + 1)
    ELSE IF width = 16 THEN value % (MaxUint16 + 1)
    ELSE value

\* a store into a typed array of the given width: kept modulo 2^width,
\* dropped when the offset is outside the array
typedStore(array, width, offset, value) ==
    IF offset >= 0 /\ offset < Len(array)
    THEN [array EXCEPT ![offset + 1] = Wrap(width, value)]
    ELSE array

\* finalizeSubmeshMap with every stamp taken from the triangle's position in
\* its bucket instead of its helper
RECURSIVE finalizeSubmeshMapByPosition(_, _, _, _, _, _)
finalizeSubmeshMapByPosition(ts, bucket, submeshMap, width, submeshIdx, t) ==
    IF t >= Len(bucket) THEN submeshMap
    ELSE LET smOffset == t * 2 IN
         finalizeSubmeshMapByPosition(ts, bucket,
             typedStore(typedStore(submeshMap, width, smOffset, submeshIdx),
                        width, smOffset + 1, t),
             width, submeshIdx, t + 1)

\* lines 525-529 of finalizeSubmesh: the stamps of one bucket
RECURSIVE finalizeSubmeshMap(_, _, _, _, _, _)
finalizeSubmeshMap(ts, bucket, submeshMap, width, submeshIdx, t) ==
    IF t >= Len(bucket) THEN submeshMap
    ELSE LET smOffset == Tri(ts, bucket[t + 1]).helper * 2 IN
         finalizeSubmeshMap(ts, bucket,
             typedStore(typedStore(submeshMap, width, smOffset, submeshIdx),
                        width, smOffset + 1, t),
             width, submeshIdx, t + 1)

\* lines 663-666: fin = [submeshes, submeshMap]
RECURSIVE finalizeSubmeshes(_, _, _, _, _, _)
finalizeSubmeshes(ts, groups, sortedMaterials, width, fin, k) ==
    IF k > Len(sortedMaterials) THEN fin
    ELSE LET material == sortedMaterials[k]
             bucket   == groups[GroupIndex(groups, material)].triangles
         IN finalizeSubmeshes(ts, groups, sortedMaterials, width,
                [ submeshes  |-> Append(fin.submeshes,
                                        [material |-> material, triangles |-> bucket]),
                  submeshMap |-> finalizeSubmeshMap(ts, bucket, fin.submeshMap,
                                                    width, k - 1, 0) ],
                k + 1)

RECURSIVE MaxBucket(_, _)
MaxBucket(groups, k) ==
    IF k > Len(groups) THEN 0
    ELSE Max(Len(groups[k].triangles), MaxBucket(groups, k + 1))

\* groupedTris.keys(): the first n keys in insertion order
RECURSIVE groupKeys(_, _)
groupKeys(groups, n) ==
    IF n = 0 THEN <<>> ELSE Append(groupKeys(groups, n - 1), groups[n].material)

\* a typed array of n zeros
RECURSIVE newTypedArray(_)
newTypedArray(n) ==
    IF n = 0 THEN <<>>
    ELSE IF n % 2 = 1 THEN Append(newTypedArray(n - 1), 0)
    ELSE LET half == newTypedArray(n \div 2) IN half \o half

\* the corners of the neighbour across edge e of triangle t that are at the
\* position of corner v of t: none when the edge is not connected
starAcross(ts, t, v, e) ==
    IF ~isEdgeConnected(ts, t, e) THEN {}
    ELSE LET link == getConnectedEdge(ts, t, e) IN
         { <<link.tri, ov>> : ov \in { ov \in {link.edge, NextIdx(link.edge)} :
               getPosition(ts, link.tri, ov) = getPosition(ts, t, v) } }

\* one more step of the walk around the vertex: the corners across the two
\* edges that meet in each corner of the front
starStep(ts, front) ==
    UNION { starAcross(ts, c[1], c[2], c[2])
              \cup starAcross(ts, c[1], c[2], NextIdx(NextIdx(c[2]))) :
            c \in front }

\* st = [star, front]: the corners found, and those found in the last step
RECURSIVE starWalk(_, _)
starWalk(ts, st) ==
    IF st.front = {} THEN st.star
    ELSE LET found == starStep(ts, st.front) \ st.star IN
         starWalk(ts, [star |-> st.star \cup found, front |-> found])

\* getVertexStar without the corner itself
getVertexStarOthers(ts, t, vi) ==
    starWalk(ts, [star |-> { <<t, vi>> }, front |-> { <<t, vi>> }]) \ { <<t, vi>> }

\* Triangle.getVertexStar(vi): the <<triangle, corner>> pairs at the position
\* of the corner that a walk over the edge links around it finds, the corner
\* itself included
getVertexStar(ts, t, vi) ==
    starWalk(ts, [star |-> { <<t, vi>> }, front |-> { <<t, vi>> }])

\* 0xFFFFFFFF, the all-ones element of a Uint32Array, written as the 32-bit
\* integer with that bit pattern
INVALID_INDEX == -1

\* lines 697-699: the stores for the corners of one vertex star
RECURSIVE starStore(_, _, _, _)
starStore(ts, indices, star, index) ==
    IF star = {} THEN indices
    ELSE LET c == CHOOSE c \in star : TRUE IN
         starStore(ts,
                   typedStore(indices, 32, Tri(ts, c[1]).helper * 3 + c[2], index),
                   star \ {c}, index)

\* lines 680-700: one corner.  st = [indices, positions, nextPosition, t]
manifoldCorner(ts, t, vi, st) ==
    IF st.indices[t * 3 + vi + 1] # INVALID_INDEX THEN st
    ELSE [ indices      |-> starStore(ts, st.indices, getVertexStar(ts, t, vi),
                                      st.nextPosition),
           positions    |-> st.positions \o getPosition(ts, t, vi),
           nextPosition |-> st.nextPosition + 1,
           t            |-> st.t ]

\* lines 676-701: the loop over this.triangles, st.t the triangle it is at
RECURSIVE manifoldLoop(_, _)
manifoldLoop(ts, st) ==
    IF st.t >= numTri(ts) THEN st
    ELSE LET done == manifoldCorner(ts, st.t, 2,
                         manifoldCorner(ts, st.t, 1, manifoldCorner(ts, st.t, 0, st)))
         IN manifoldLoop(ts, [done EXCEPT !.t = @ + 1])

\* indices.fill(INVALID_INDEX) on an array of n elements
RECURSIVE invalidIndices(_)
invalidIndices(n) ==
    IF n = 0 THEN <<>> ELSE Append(invalidIndices(n - 1), INVALID_INDEX)

\* lines 668-706: the manifold mesh [triVerts, vertPos]
manifoldMesh(ts) ==
    LET st == manifoldLoop(ts, [ indices      |-> invalidIndices(numTri(ts) * 3),
                                 positions    |-> <<>>,
                                 nextPosition |-> 0,
                                 t            |-> 0 ])
    IN [ triVerts |-> st.indices, vertPos |-> st.positions ]

\* finalize: [err, materialMap, submeshes, submeshMap, width, manifoldMesh]
finalize(ts, materialMap) ==
    LET failed(err) == [err |-> err, materialMap |-> materialMap,
                        submeshes |-> <<>>, submeshMap |-> <<>>, width |-> 0,
                        manifoldMesh |-> [triVerts |-> <<>>, vertPos |-> <<>>]]
    IN
    \* isConnected reads this.triangles[0], which an empty list does not have
    IF numTri(ts) = 0 THEN failed("TypeError")
    ELSE IF ~isConnected(ts) THEN failed("Mesh is not connected")
    ELSE LET groups          == groupTriangles(ts, materialMap, <<>>, 0)
             keys            == groupKeys(groups, Len(groups))
             sortedMaterials == sortMaterials(keys, materialMap)
             triCount        == numTri(ts)
             width           == makeSubmeshMapBuffer(Num(triCount),
                                                     Num(MaxBucket(groups, 1)),
                                                     Num(Len(groups) - 1))
             fin             == finalizeSubmeshes(ts, groups, sortedMaterials, width,
                                    [ submeshes  |-> <<>>,
                                      submeshMap |-> newTypedArray(triCount * 2) ],
                                    1)
         IN IF width = NoWidth THEN failed("Maximum index exceeded")
            ELSE [ err          |-> "",
                   materialMap  |-> materialMap,
                   submeshes    |-> fin.submeshes,
                   submeshMap   |-> fin.submeshMap,
                   width        |-> width,
                   manifoldMesh |-> manifoldMesh(ts) ]

(***************************************************************************)
(* finalizeSubmesh: the vertex and index buffers of one bucket.  A vertex  *)
(* is the 8-tuple <<x, y, z, nx, ny, nz, u, v>> of Triangle.vertexData;    *)
(* the triangles of this part carry the fields normal and uv next to pos.  *)
(***************************************************************************)
NewTriangleWithData(p0, p1, p2, n0, n1, n2, uv0, uv1, uv2, helper) ==
    [ pos        |-> <<p0, p1, p2>>,
      normal     |-> <<n0, n1, n2>>,
      uv         |-> <<uv0, uv1, uv2>>,
      materialID |-> 0,
      helper     |-> helper,
      edges      |-> <<NoEdge, NoEdge, NoEdge>> ]

\* addTriangle with positions, normals and UVs (lines 251-258, 279-281)
addTriangleWithData(ts, p0, p1, p2, n0, n1, n2, uv0, uv1, uv2) ==
    Append(ts, NewTriangleWithData(p0, p1, p2, n0, n1, n2, uv0, uv1, uv2,
                                   numTri(ts)))

\* Vectors with integer components.  A unit vector is written as the
\* shortest integer vector of its direction, the zero vector as itself.
vecSub(a, b) == << a[1] - b[1], a[2] - b[2], a[3] - b[3] >>

vecCross(a, b) ==
    << a[2] * b[3] - a[3] * b[2], a[3] * b[1] - a[1] * b[3],
       a[1] * b[2] - a[2] * b[1] >>

vecDot(a, b) == a[1] * b[1] + a[2] * b[2] + a[3] * b[3]

Abs(n) == IF n < 0 THEN -n ELSE n

RECURSIVE Gcd(_, _)
Gcd(a, b) == IF b = 0 THEN a ELSE Gcd(b, a % b)

\* vec3.normalize
vecNormalize(a) ==
    LET g == Gcd(Gcd(Abs(a[1]), Abs(a[2])), Abs(a[3])) IN
    IF g = 0 THEN a ELSE << a[1] \div g, a[2] \div g, a[3] \div g >>

\* normalFromTriangle(a, b, c): the unit normal of the triangle a, b, c
normalFromTriangle(a, b, c) == vecNormalize(vecCross(vecSub(b, a), vecSub(c, a)))

ZeroUV == <<0, 0>>

\* triangles a to b of the list with the normal of lines 349-350 on every
\* corner and the UVs a new Triangle has
RECURSIVE quadSetData(_, _, _, _)
quadSetData(ts, normal, a, b) ==
    IF a > b THEN <<>>
    ELSE IF a = b
    THEN << [ pos        |-> Tri(ts, a).pos,
              normal     |-> <<normal, normal, normal>>,
              uv         |-> <<ZeroUV, ZeroUV, ZeroUV>>,
              materialID |-> Tri(ts, a).materialID,
              helper     |-> Tri(ts, a).helper,
              edges      |-> Tri(ts, a).edges ] >>
    ELSE quadSetData(ts, normal, a, (a + b) \div 2)
             \o quadSetData(ts, normal, (a + b) \div 2 + 1, b)

\* addSubdivQuad without UVs, with the vertex data of its triangles
addSubdivQuadWithData(ts, tl, tr, bl, br, materialID, s) ==
    LET new == addSubdivQuad(ts, tl, tr, bl, br, materialID, s) IN
    SubSeq(new, 1, numTri(ts))
        \o quadSetData(new, normalFromTriangle(tl, bl, tr), numTri(ts), numTri(new) - 1)

\* triangle.vertexData at offset 8 * i
vertexData(ts, t, i) ==
    Tri(ts, t).pos[i + 1] \o Tri(ts, t).normal[i + 1] \o Tri(ts, t).uv[i + 1]

NoAuxIdx == -1

\* VertexHasher.getAuxIdx: the index registered for an attribute-identical
\* vertex, NoAuxIdx when there is none.  The hasher is the sequence of the
\* registered [vertex, idx].
getAuxIdx(hasher, vertex) ==
    IF \E k \in 1..Len(hasher) : hasher[k].vertex = vertex
    THEN hasher[CHOOSE k \in 1..Len(hasher) : hasher[k].vertex = vertex].idx
    ELSE NoAuxIdx

\* VertexHasher.getAuxIdx registers the vertex it did not find under nextIdx
hasherRegister(hasher, vertex, nextIdx) ==
    Append(hasher, [vertex |-> vertex, idx |-> nextIdx])

\* makeIndexBuffer without the 8-bit type
makeIndexBufferNoByte(size, vertexCount) ==
    IF NumLeq(vertexCount, Num(MaxUint16)) THEN 16
    ELSE IF NumLeq(vertexCount, MAX_INDEX) THEN 32
    ELSE NoWidth

\* makeIndexBuffer: the element width in bits of the index type, NoWidth
\* when it throws.  The arguments are [hi, lo] numbers.
makeIndexBuffer(size, vertexCount) ==
    IF NumLeq(vertexCount, Num(MaxUint8)) THEN 8
    ELSE IF NumLeq(vertexCount, Num(MaxUint16)) THEN 16
    ELSE IF NumLeq(vertexCount, MAX_INDEX) THEN 32
    ELSE NoWidth

\* lines 531-561 with a hasher that never finds a vertex: every corner is
\* pushed
weldCornerNoMerge(ts, t, i, st) ==
    LET vertex == vertexData(ts, t, i) IN
    [ t         |-> st.t,
      hasher    |-> st.hasher,
      nextIdx   |-> st.nextIdx + 1,
      positions |-> st.positions \o SubSeq(vertex, 1, 3),
      normals   |-> st.normals \o SubSeq(vertex, 4, 6),
      texCoords |-> st.texCoords \o SubSeq(vertex, 7, 8),
      indexData |-> typedStore(st.indexData, st.indexType, st.iOffset, st.nextIdx),
      indexType |-> st.indexType,
      iOffset   |-> st.iOffset + 1 ]

\* lines 531-561: one corner.  st = [t, hasher, nextIdx, positions, normals,
\* texCoords, indexData, indexType, iOffset], t the loop counter of line 525
weldCorner(ts, t, i, st) ==
    LET vertex == vertexData(ts, t, i)
        auxIdx == getAuxIdx(st.hasher, vertex)
    IN IF auxIdx = NoAuxIdx
       THEN [ t         |-> st.t,
              hasher    |-> hasherRegister(st.hasher, vertex, st.nextIdx),
              nextIdx   |-> st.nextIdx + 1,
              positions |-> st.positions \o SubSeq(vertex, 1, 3),
              normals   |-> st.normals \o SubSeq(vertex, 4, 6),
              texCoords |-> st.texCoords \o SubSeq(vertex, 7, 8),
              indexData |-> typedStore(st.indexData, st.indexType, st.iOffset,
                                       st.nextIdx),
              indexType |-> st.indexType,
              iOffset   |-> st.iOffset + 1 ]
       ELSE [ st EXCEPT !.indexData = typedStore(st.indexData, st.indexType,
                                                 st.iOffset, auxIdx),
                        !.iOffset   = st.iOffset + 1 ]

\* lines 525-562: the loop over the triangles of the bucket from st.t up to
\* but not including triangle number until; a longer stretch is run as its
\* first half followed by its second half
RECURSIVE weldLoop(_, _, _, _)
weldLoop(ts, bucket, st, until) ==
    IF st.t >= until THEN st
    ELSE IF st.t + 1 = until
    THEN [ weldCorner(ts, bucket[st.t + 1], 2,
               weldCorner(ts, bucket[st.t + 1], 1,
                   weldCorner(ts, bucket[st.t + 1], 0, st)))
           EXCEPT !.t = st.t + 1 ]
    ELSE weldLoop(ts, bucket,
                  weldLoop(ts, bucket, st, (st.t + until) \div 2),
                  until)

\* finalizeSubmesh, lines 512-567: what the mesh is made from.  A bucket has
\* far fewer than MAX_INDEX / 3 triangles, so makeIndexBuffer does not throw.
finalizeSubmesh(ts, bucket) ==
    LET triCount   == Len(bucket)
        indexCount == triCount * 3
        indexType  == makeIndexBuffer(Num(indexCount), Num(indexCount))
        st == weldLoop(ts, bucket,
                  [ t         |-> 0,
                    hasher    |-> <<>>,
                    nextIdx   |-> 0,
                    positions |-> <<>>,
                    normals   |-> <<>>,
                    texCoords |-> <<>>,
                    indexData |-> newTypedArray(indexCount),
                    indexType |-> indexType,
                    iOffset   |-> 0 ],
                  triCount)
    IN [ vertexCount |-> Len(st.positions) \div 3,
         positions   |-> st.positions,
         normals     |-> st.normals,
         texCoords   |-> st.texCoords,
         indexData   |-> st.indexData,
         indexType   |-> indexType ]

(***************************************************************************)
(* addSmoothNormals.  An angle is written as a number of quarter turns     *)
(* (multiples of pi / 2), its cosine as -1, 0 or 1; a unit vector is the   *)
(* shortest integer vector of its direction, so that the comparison of a   *)
(* dot product of unit vectors with a cosine is decided on whole numbers.  *)
(***************************************************************************)
\* Math.PI, in quarter turns
PI == 2

Min(a, b) == IF a < b THEN a ELSE b

\* Math.cos of an angle between 0 and pi
cos(angle) == IF angle = 0 THEN 1 ELSE IF angle = 1 THEN 0 ELSE -1

\* line 912
dotThresholdOf(maxAngle) == cos(Max(Min(maxAngle, PI), 0))

\* vec3.dot(a, b) > dotThreshold for the unit vectors of directions a and b
dotExceeds(a, b, dotThreshold) ==
    LET dot == vecDot(a, b) IN
    IF dotThreshold = 1 THEN dot > 0 /\ dot * dot > vecDot(a, a) * vecDot(b, b)
    ELSE IF dotThreshold = 0 THEN dot > 0
    ELSE dot >= 0 \/ dot * dot < vecDot(a, a) * vecDot(b, b)

ZeroNormal == <<0, 0, 0>>

\* Triangle.hasNormals(vi)
hasNormals(ts, t, vi) == Tri(ts, t).normal[vi + 1] # ZeroNormal

\* Triangle.setNormal(vi, normal)
setNormal(ts, t, vi, normal) == [ts EXCEPT ![t + 1].normal[vi + 1] = normal]

\* addTriangle with positions only: hard normals (lines 272-277)
addTriangleHardNormals(ts, p0, p1, p2) ==
    LET temp == normalFromTriangle(p0, p1, p2) IN
    addTriangleWithData(ts, p0, p1, p2, temp, temp, temp, ZeroUV, ZeroUV, ZeroUV)

\* addTriangleNoNormals with positions only
addTriangleNoNormals(ts, p0, p1, p2) ==
    addTriangleWithData(ts, p0, p1, p2, ZeroNormal, ZeroNormal, ZeroNormal,
                        ZeroUV, ZeroUV, ZeroUV)

\* hardNormals[i] = this.triangles[i].getFaceNormal() (line 930)
hardNormal(ts, i) ==
    normalFromTriangle(getPosition(ts, i, 0), getPosition(ts, i, 1), getPosition(ts, i, 2))

\* hardNormals[i] scaled by surfaceAreas[i] (lines 930-931, 887), doubled:
\* the cross product of two sides of triangle i
weightedNormal(ts, i) ==
    vecCross(vecSub(getPosition(ts, i, 1), getPosition(ts, i, 0)),
             vecSub(getPosition(ts, i, 2), getPosition(ts, i, 0)))

\* the corners of a set in the order of their triangles, then of their corners
RECURSIVE cornerSeq(_)
cornerSeq(S) ==
    IF S = {} THEN <<>>
    ELSE LET c == CHOOSE c \in S : \A d \in S : c[1] * 3 + c[2] <= d[1] * 3 + d[2]
         IN <<c>> \o cornerSeq(S \ {c})

\* the vertex star as the sequence line 826 iterates: the corner itself, then
\* the other corners of the star
vertexStarSeq(ts, t, vi) ==
    << <<t, vi>> >> \o cornerSeq(getVertexStar(ts, t, vi) \ { <<t, vi>> })

\* lines 833-842: the groups with a member whose hard normal is close to that
\* of the triangle of vsPair
belongsTo(ts, dotThreshold, groups, vsPair) ==
    { g \in 1..Len(groups) :
        \E member \in groups[g] :
            dotExceeds(hardNormal(ts, Tri(ts, member[1]).helper),
                       hardNormal(ts, Tri(ts, vsPair[1]).helper), dotThreshold) }

\* the groups whose index is not in a set, in their order (lines 864-868)
RECURSIVE groupsNotIn(_, _, _)
groupsNotIn(groups, B, g) ==
    IF g > Len(groups) THEN <<>>
    ELSE (IF g \in B THEN <<>> ELSE << groups[g] >>) \o groupsNotIn(groups, B, g + 1)

\* lines 856-872: the groups of B merged into one group at the end; vsPair is
\* pushed to no group
mergeGroups(groups, B, vsPair) ==
    Append(groupsNotIn(groups, B, 1), UNION { groups[g] : g \in B })

\* lines 826-874; a group is the set of its <<triangle, corner>> pairs
RECURSIVE groupLoop(_, _, _, _, _)
groupLoop(ts, dotThreshold, vertexStar, groups, k) ==
    IF k > Len(vertexStar) THEN groups
    ELSE LET vsPair == vertexStar[k]
             B      == belongsTo(ts, dotThreshold, groups, vsPair)
             next   == IF B = {} THEN Append(groups, {vsPair})
                       ELSE IF Cardinality(B) = 1
                       THEN LET g == CHOOSE g \in B : TRUE
                            IN [groups EXCEPT ![g] = @ \cup {vsPair}]
                       ELSE mergeGroups(groups, B, vsPair)
         IN groupLoop(ts, dotThreshold, vertexStar, next, k + 1)

\* the smoothing groups of the vertex star of corner vi of triangle t
smoothGroups(ts, dotThreshold, t, vi) ==
    groupLoop(ts, dotThreshold, vertexStarSeq(ts, t, vi), <<>>, 1)

\* lines 880-888
RECURSIVE sumWeightedNormals(_, _)
sumWeightedNormals(ts, group) ==
    IF group = {} THEN ZeroNormal
    ELSE LET c    == CHOOSE c \in group : TRUE
             rest == sumWeightedNormals(ts, group \ {c})
             n    == weightedNormal(ts, Tri(ts, c[1]).helper)
         IN << rest[1] + n[1], rest[2] + n[2], rest[3] + n[3] >>

\* lines 892-894
RECURSIVE setGroupNormal(_, _, _)
setGroupNormal(ts, group, smoothNormal) ==
    IF group = {} THEN ts
    ELSE LET c == CHOOSE c \in group : TRUE
         IN setGroupNormal(setNormal(ts, c[1], c[2], smoothNormal), group \ {c},
                           smoothNormal)

\* lines 877-895
RECURSIVE smoothGroupNormals(_, _, _)
smoothGroupNormals(ts, groups, g) ==
    IF g > Len(groups) THEN ts
    ELSE smoothGroupNormals(
             setGroupNormal(ts, groups[g],
                            vecNormalize(sumWeightedNormals(ts, groups[g]))),
             groups, g + 1)

\* st = [ts, groups]: the triangles, and for every corner that was smoothed
\* so far the corner and the groups made for its vertex star
smoothenVertexNormal(st, dotThreshold, t, vi) ==
    IF hasNormals(st.ts, t, vi) THEN st
    ELSE LET groups == smoothGroups(st.ts, dotThreshold, t, vi) IN
         [ ts     |-> smoothGroupNormals(st.ts, groups, 1),
           groups |-> Append(st.groups, [corner |-> <<t, vi>>, groups |-> groups]) ]

\* lines 915-922
RECURSIVE resetNormalsLoop(_, _)
resetNormalsLoop(ts, t) ==
    IF t >= numTri(ts) THEN ts
    ELSE resetNormalsLoop(
             [ts EXCEPT ![t + 1].normal = <<ZeroNormal, ZeroNormal, ZeroNormal>>],
             t + 1)

\* lines 935-939; q counts the corners, corner v of triangle t at 3 * t + v
RECURSIVE smoothLoop(_, _, _)
smoothLoop(st, dotThreshold, q) ==
    IF q >= 3 * numTri(st.ts) THEN st
    ELSE smoothLoop(smoothenVertexNormal(st, dotThreshold, q \div 3, q % 3),
                    dotThreshold, q + 1)

\* the result is [ts, groups]: the triangles with their new normals, and the
\* smoothing groups that were made on the way
addSmoothNormals(ts, maxAngle, resetNormals) ==
    smoothLoop([ ts     |-> IF resetNormals THEN resetNormalsLoop(ts, 0) ELSE ts,
                 groups |-> <<>> ],
               dotThresholdOf(maxAngle), 0)

(***************************************************************************)
(* addTriangle and addTriangleNoNormals with their optional arguments.  An *)
(* argument that is left out is NoArg; uvNormal is a triple of normals or  *)
(* of UVs, told apart by their length as in line 261.                      *)
(***************************************************************************)
NoArg == <<>>

\* lines 251-258 (normals and UVs), 260-270 (normals or UVs), 272-277
addTriangleLikeNoNormals(ts, pos, uvNormal, uv) ==
    addTriangleWithData(ts, pos[1], pos[2], pos[3],
        IF uvNormal # NoArg /\ Len(uvNormal[1]) = 3 THEN uvNormal[1] ELSE ZeroNormal,
        IF uvNormal # NoArg /\ Len(uvNormal[1]) = 3 THEN uvNormal[2] ELSE ZeroNormal,
        IF uvNormal # NoArg /\ Len(uvNormal[1]) = 3 THEN uvNormal[3] ELSE ZeroNormal,
        ZeroUV, ZeroUV, ZeroUV)

\* addTriangle(pos0, pos1, pos2, uvNormal0?, uvNormal1?, uvNormal2?, uv0?, uv1?, uv2?)
addTriangleData(ts, pos, uvNormal, uv) ==
    LET temp == normalFromTriangle(pos[1], pos[2], pos[3]) IN
    IF uv # NoArg
    THEN addTriangleWithData(ts, pos[1], pos[2], pos[3],
                             uvNormal[1], uvNormal[2], uvNormal[3],
                             uv[1], uv[2], uv[3])
    ELSE IF uvNormal # NoArg
    THEN IF Len(uvNormal[1]) = 2
         THEN addTriangleWithData(ts, pos[1], pos[2], pos[3], temp, temp, temp,
                                  uvNormal[1], uvNormal[2], uvNormal[3])
         ELSE addTriangleWithData(ts, pos[1], pos[2], pos[3],
                                  uvNormal[1], uvNormal[2], uvNormal[3],
                                  ZeroUV, ZeroUV, ZeroUV)
    ELSE addTriangleHardNormals(ts, pos[1], pos[2], pos[3])

\* addTriangleNoNormals(pos0, pos1, pos2, uv0?, uv1?, uv2?)
addTriangleNoNormalsData(ts, pos, uv) ==
    IF uv # NoArg
    THEN addTriangleWithData(ts, pos[1], pos[2], pos[3],
                             ZeroNormal, ZeroNormal, ZeroNormal, uv[1], uv[2], uv[3])
    ELSE addTriangleNoNormals(ts, pos[1], pos[2], pos[3])

(***************************************************************************)
(* BaseManifoldWLMesh.  A WL.Mesh is [positions, indexed, indexData]: the  *)
(* positions of its packed vertices, and its index data when it has any    *)
(* (indexed = FALSE stands for indexData === null); vertexCount is the     *)
(* number of positions.  Coordinates are whole numbers, so that two        *)
(* components differ by less than EPS exactly when they are equal.         *)
(***************************************************************************)
Null == <<>>

\* lines 112-114, 137-139
wleIndexCount(wleMesh) ==
    IF wleMesh.indexed THEN Len(wleMesh.indexData) ELSE Len(wleMesh.positions)

\* lines 111-122: st = [totalVertexCount, maxSubmeshTriCount, err]
RECURSIVE wleCountLoop(_, _, _)
wleCountLoop(wleMeshes, st, k) ==
    IF k > Len(wleMeshes) \/ st.err # "" THEN st
    ELSE LET indexCount == wleIndexCount(wleMeshes[k]) IN
         IF indexCount % 3 # 0
         THEN [st EXCEPT !.err = "Mesh has an invalid index count"]
         ELSE wleCountLoop(wleMeshes,
                  [ totalVertexCount   |-> st.totalVertexCount + indexCount,
                    maxSubmeshTriCount |-> Max(st.maxSubmeshTriCount, indexCount \div 3),
                    err                |-> "" ],
                  k + 1)

\* VertexHasher.isUnique(pos): the position was not handed to the hasher
\* before and its hash collides with no other; collisions is the set of the
\* positions whose hash collides
isUnique(hasher, collisions, pos) == pos \notin hasher /\ pos \notin collisions

\* lines 152-158: the first offset k of vertPos with the position, the length
\* of vertPos when there is none
RECURSIVE vertPosScan(_, _, _)
vertPosScan(vertPos, pos, k) ==
    IF k >= Len(vertPos) THEN k
    ELSE IF vertPos[k + 1] = pos[1] /\ vertPos[k + 2] = pos[2] /\ vertPos[k + 3] = pos[3]
    THEN k
    ELSE vertPosScan(vertPos, pos, k + 3)

\* lines 143-166 for one packed vertex.  st = [vertPos, hasher,
\* mergedIndices, i]
wleConvert(collisions, pos, st) ==
    IF isUnique(st.hasher, collisions, pos)
    THEN [ vertPos       |-> st.vertPos \o pos,
           hasher        |-> st.hasher \cup {pos},
           mergedIndices |-> Append(st.mergedIndices, Len(st.vertPos) \div 3),
           i             |-> st.i + 1 ]
    ELSE LET k == vertPosScan(st.vertPos, pos, 0) IN
         [ vertPos       |-> IF k = Len(st.vertPos) THEN st.vertPos \o pos
                             ELSE st.vertPos,
           hasher        |-> st.hasher \cup {pos},
           mergedIndices |-> Append(st.mergedIndices, k \div 3),
           i             |-> st.i + 1 ]

\* lines 142-166: the loop over the packed vertices of one mesh
RECURSIVE wleConvertLoop(_, _, _)
wleConvertLoop(wleMesh, collisions, st) ==
    IF st.i >= Len(wleMesh.positions) THEN st
    ELSE wleConvertLoop(wleMesh, collisions,
                        wleConvert(collisions, wleMesh.positions[st.i + 1], st))

\* mergedIndices[i] as a Uint32Array element: 0 for an index that
\* mergedIndices does not have
mergedIndex(mergedIndices, i) ==
    IF i >= 0 /\ i < Len(mergedIndices) THEN mergedIndices[i + 1] ELSE 0

\* the packed vertex of corner i of the triangle list of a mesh (lines 172-174,
\* 182-184)
wleCorner(wleMesh, i) ==
    IF wleMesh.indexed THEN wleMesh.indexData[i + 1] ELSE i

\* lines 171-179, 181-189 for one triangle, with the submesh index stamped in
\* both slots of the submesh map
wleTriangleStampSubmesh(wleMesh, mergedIndices, width, submeshIdx, st) ==
    [ triVerts   |-> typedStore(typedStore(typedStore(st.triVerts, 32, st.jm,
                         mergedIndex(mergedIndices, wleCorner(wleMesh, st.i))),
                         32, st.jm + 1,
                         mergedIndex(mergedIndices, wleCorner(wleMesh, st.i + 1))),
                         32, st.jm + 2,
                         mergedIndex(mergedIndices, wleCorner(wleMesh, st.i + 2))),
      submeshMap |-> typedStore(typedStore(st.submeshMap, width, st.js, submeshIdx),
                                width, st.js + 1, submeshIdx),
      jm         |-> st.jm + 3,
      js         |-> st.js + 2,
      tri        |-> st.tri + 1,
      i          |-> st.i + 3 ]

\* lines 171-179, 181-189 for one triangle.  st = [triVerts, submeshMap, jm,
\* js, tri, i]
wleTriangle(wleMesh, mergedIndices, width, submeshIdx, st) ==
    [ triVerts   |-> typedStore(typedStore(typedStore(st.triVerts, 32, st.jm,
                         mergedIndex(mergedIndices, wleCorner(wleMesh, st.i))),
                         32, st.jm + 1,
                         mergedIndex(mergedIndices, wleCorner(wleMesh, st.i + 1))),
                         32, st.jm + 2,
                         mergedIndex(mergedIndices, wleCorner(wleMesh, st.i + 2))),
      submeshMap |-> typedStore(typedStore(st.submeshMap, width, st.js, submeshIdx),
                                width, st.js + 1, st.tri),
      jm         |-> st.jm + 3,
      js         |-> st.js + 2,
      tri        |-> st.tri + 1,
      i          |-> st.i + 3 ]

\* lines 168-190: the loop over the triangles of one mesh
RECURSIVE wleTriangleLoop(_, _, _, _, _)
wleTriangleLoop(wleMesh, mergedIndices, width, submeshIdx, st) ==
    IF st.i >= wleIndexCount(wleMesh) THEN st
    ELSE wleTriangleLoop(wleMesh, mergedIndices, width, submeshIdx,
                         wleTriangle(wleMesh, mergedIndices, width, submeshIdx, st))

\* lines 133-191: the loop over the meshes.  st = [vertPos, hasher, triVerts,
\* submeshMap, jm, js, submeshIdx]
RECURSIVE wleMeshLoop(_, _, _, _)
wleMeshLoop(wleMeshes, collisions, width, st) ==
    IF st.submeshIdx >= Len(wleMeshes) THEN st
    ELSE LET wleMesh   == wleMeshes[st.submeshIdx + 1]
             converted == wleConvertLoop(wleMesh, collisions,
                              [ vertPos       |-> st.vertPos,
                                hasher        |-> st.hasher,
                                mergedIndices |-> <<>>,
                                i             |-> 0 ])
             made      == wleTriangleLoop(wleMesh, converted.mergedIndices, width,
                              st.submeshIdx,
                              [ triVerts   |-> st.triVerts,
                                submeshMap |-> st.submeshMap,
                                jm         |-> st.jm,
                                js         |-> st.js,
                                tri        |-> 0,
                                i          |-> 0 ])
         IN wleMeshLoop(wleMeshes, collisions, width,
                [ vertPos    |-> converted.vertPos,
                  hasher     |-> converted.hasher,
                  triVerts   |-> made.triVerts,
                  submeshMap |-> made.submeshMap,
                  jm         |-> made.jm,
                  js         |-> made.js,
                  submeshIdx |-> st.submeshIdx + 1 ])

\* manifoldFromWLE(wleMeshes) with genSubmeshMap = true: [err, submeshMap,
\* manifoldMesh], the submesh map as [width, data], the manifold mesh as
\* [triVerts, vertPos]
manifoldFromWLE(wleMeshes, collisions) ==
    LET failed(err) == [err |-> err, submeshMap |-> Null, manifoldMesh |-> Null]
        counted == wleCountLoop(wleMeshes,
                       [totalVertexCount |-> 0, maxSubmeshTriCount |-> 0, err |-> ""], 1)
        totalTriCount == counted.totalVertexCount \div 3
        width   == makeSubmeshMapBuffer(Num(totalTriCount),
                                        Num(counted.maxSubmeshTriCount),
                                        Num(Len(wleMeshes) - 1))
        st      == wleMeshLoop(wleMeshes, collisions, width,
                       [ vertPos    |-> <<>>,
                         hasher     |-> {},
                         triVerts   |-> newTypedArray(counted.totalVertexCount),
                         submeshMap |-> newTypedArray(totalTriCount * 2),
                         jm         |-> 0,
                         js         |-> 0,
                         submeshIdx |-> 0 ])
    IN IF counted.err # "" THEN failed(counted.err)
       ELSE IF width = NoWidth THEN failed("Maximum index exceeded")
       ELSE IF st.jm # Len(st.triVerts) THEN failed("Unexpected manifold triangle count")
       ELSE IF st.js # Len(st.submeshMap)
       THEN failed("Unexpected iterator position for submeshMap")
       ELSE [ err          |-> "",
              submeshMap   |-> [width |-> width, data |-> st.submeshMap],
              manifoldMesh |-> [triVerts |-> st.triVerts, vertPos |-> st.vertPos] ]

\* the mesh object: [submeshes, premadeManifoldMesh, submeshMap, destroyed];
\* a submesh is [mesh, material] with mesh the number of a WL.Mesh, and
\* destroyed counts the destroy() calls each WL.Mesh received

\* get manifoldMesh (lines 44-57): [obj, err]
manifoldMeshGetter(obj, wlMeshes, collisions) ==
    IF obj.premadeManifoldMesh # Null THEN [obj |-> obj, err |-> ""]
    ELSE LET wleMeshes == [ i \in 1..Len(obj.submeshes) |->
                                wlMeshes[obj.submeshes[i].mesh] ]
             made      == manifoldFromWLE(wleMeshes, collisions)
         IN IF made.err # "" THEN [obj |-> obj, err |-> made.err]
            ELSE [ obj |-> [obj EXCEPT !.submeshMap = made.submeshMap,
                                       !.premadeManifoldMesh = made.manifoldMesh],
                   err |-> "" ]

\* get submeshCount
submeshCount(obj) == Len(obj.submeshes)

\* getSubmesh(submeshIdx): [value, err]
getSubmesh(obj, submeshIdx) ==
    IF submeshIdx >= 0 /\ submeshIdx < Len(obj.submeshes)
    THEN [value |-> obj.submeshes[submeshIdx + 1], err |-> ""]
    ELSE [value |-> Null, err |-> "No submesh exists at index"]

\* getTriBarySubmesh(triIdx): [value, err].  An element that the submesh map
\* does not have is undefined, written -1, and no submesh index
getTriBarySubmesh(obj, triIdx) ==
    IF obj.submeshMap = Null THEN [value |-> Null, err |-> "Missing submesh map"]
    ELSE LET offset == triIdx * 2
             at(o)  == IF o >= 0 /\ o < Len(obj.submeshMap.data)
                       THEN obj.submeshMap.data[o + 1] ELSE -1
             sub    == getSubmesh(obj, at(offset))
         IN IF sub.err # "" THEN [value |-> Null, err |-> sub.err]
            ELSE [value |-> <<sub.value, at(offset + 1)>>, err |-> ""]

\* lines 245-247: mesh.destroy() for the submeshes from k on
RECURSIVE destroyLoop(_, _, _)
destroyLoop(submeshes, destroyed, k) ==
    IF k > Len(submeshes) THEN destroyed
    ELSE destroyLoop(submeshes,
                     [destroyed EXCEPT ![submeshes[k].mesh] = @ + 1], k + 1)

\* dispose (lines 244-252)
dispose(obj) ==
    [ submeshes           |-> <<>>,
      premadeManifoldMesh |-> Null,
      submeshMap          |-> Null,
      destroyed           |-> destroyLoop(obj.submeshes, obj.destroyed, 1) ]

(***************************************************************************)
(* setTriangleHelpers (lines 764-769)                                      *)
(***************************************************************************)
setTriangleHelpers(ts) ==
    [ i \in 1..numTri(ts) |-> [ts[i] EXCEPT !.helper = i - 1] ]

(***************************************************************************)
(* Inputs.                                                                 *)
(***************************************************************************)
PO == <<0, 0, 0>>
PX == <<8, 0, 0>>
PY == <<0, 8, 0>>
PW == <<8, 8, 0>>
PZ == <<0, 0, 8>>

\* Triangles handed to addTriangle: the two halves of the square O, X, Y, W,
\* a third triangle on the square's diagonal X-Y (wound like one half and
\* against the other) and a triangle that shares no edge with the others.
TriangleInputs ==
    { <<PO, PY, PX>>, <<PX, PY, PW>>, <<PX, PY, PZ>>, <<PO, PX, PZ>> }

PickRange(ts) == 0..(numTri(ts) - 1)

RECURSIVE DistinctSeqs(_, _)
DistinctSeqs(S, n) ==
    IF n = 0 THEN { <<>> }
    ELSE LET shorter == DistinctSeqs(S, n - 1) IN
         shorter \cup { Append(s, x) : s \in { q \in shorter : Len(q) = n - 1 },
                                       x \in S }

NoDup(s) == \A i, j \in 1..Len(s) : i # j => s[i] # s[j]

SubsetInputs(ts) ==
    { s \in DistinctSeqs(PickRange(ts), MaxSubsetLen) : Len(s) > 0 /\ NoDup(s) }

\* the quad handed to addSubdivQuad: the square O, X, Y, W
QuadInputs == { <<PO, PX, PY, PW>> }

QuadMaterials == {1, 2}

QuadSubDivisions == {1, 2}

\* material maps handed to finalize
MaterialMapInputs ==
    { <<>>,
      << <<0, "mA">>, <<1, "mB">> >>,
      << <<1, "mA">>, <<0, "mB">> >>,
      << <<0, "mA">>, <<1, "mB">>, <<2, "mA">> >>,
      << <<0, "mA">>, <<1, "mA">> >> }

EdgeInputs(ts) == PickRange(ts) \X Edges

EdgeListInputs(ts) ==
    { s \in DistinctSeqs(EdgeInputs(ts), MaxEdgeListLen) :
        /\ Len(s) > 0
        /\ \A i, j \in 1..Len(s) : i # j => s[i][1] # s[j][1] }

PoolInputs(ts) ==
    { s \in DistinctSeqs(PickRange(ts), MaxPoolLen) : Len(s) > 0 /\ NoDup(s) }

(***************************************************************************)
(* State machine.                                                          *)
(***************************************************************************)
NoOut == <<>>

Op(name, err) ==
    [op |-> name, err |-> err, visited |-> {}]

Init ==
    /\ triangles = <<>>
    /\ last = Op("new", "")
    /\ out = NoOut

AddTriangle ==
    /\ numTri(triangles) < MaxTri
    /\ \E p \in TriangleInputs :
          triangles' = addTriangle(triangles, p[1], p[2], p[3])
    /\ last' = Op("addTriangle", "")
    /\ out' = NoOut

AddSubdivQuad ==
    /\ numTri(triangles) <= MaxQuadBase
    /\ \E q \in QuadInputs, m \in QuadMaterials, s \in QuadSubDivisions :
          triangles' = addSubdivQuad(triangles, q[1], q[2], q[3], q[4], m, s)
    /\ last' = Op("addSubdivQuad", "")
    /\ out' = NoOut

SubDivide4 ==
    /\ numTri(triangles) <= MaxSubdivTri
    /\ triangles' = subDivide4(triangles)
    /\ last' = Op("subDivide4", "")
    /\ out' = NoOut

DisconnectAllEdges ==
    /\ triangles' = disconnectAllEdges(triangles)
    /\ last' = Op("disconnectAllEdges", "")
    /\ out' = NoOut

AutoConnectAllEdges ==
    /\ triangles' = autoConnectAllEdges(triangles)
    /\ last' = Op("autoConnectAllEdges", "")
    /\ out' = NoOut

AutoConnectAllEdgesOfSubset ==
    /\ numTri(triangles) <= MaxPick
    /\ \E S \in SubsetInputs(triangles) :
           /\ triangles' = autoConnectAllEdgesOfSubset(triangles, S)
           /\ last' = Op("autoConnectAllEdgesOfSubset", "")
           /\ out' = NoOut

AutoConnectEdgesList ==
    /\ numTri(triangles) <= MaxPick
    /\ \E edges \in EdgeListInputs(triangles), pool \in PoolInputs(triangles) :
          LET r == autoConnectEdgesList(triangles, edges, pool) IN
          /\ triangles' = r.ts
          /\ last' = Op("autoConnectEdgesList", r.err)
          /\ out' = NoOut

AutoConnectEdgesFlood ==
    LET r == autoConnectEdgesFlood(triangles) IN
    /\ triangles' = r.ts
    /\ last' = [Op("autoConnectEdgesFlood", r.err) EXCEPT !.visited = r.visited]
    /\ out' = NoOut

Finalize ==
    \E materialMap \in MaterialMapInputs :
        LET r == finalize(triangles, materialMap) IN
        /\ triangles' = triangles
        /\ last' = Op("finalize", r.err)
        /\ out' = IF r.err = "" THEN r ELSE NoOut

Next ==
    \/ AddTriangle
    \/ DisconnectAllEdges
    \/ AutoConnectAllEdges
    \/ AutoConnectAllEdgesOfSubset
    \/ AutoConnectEdgesList
    \/ AutoConnectEdgesFlood
    \/ AddSubdivQuad
    \/ SubDivide4
    \/ Finalize

Spec == Init /\ [][Next]_vars

(***************************************************************************)
(* The builder with vertex data: triangles added with normals and UVs, and *)
(* finalizeSubmesh applied to the whole list as one bucket.                *)
(***************************************************************************)
MaxWeldTri == 2

NZ == <<0, 0, 1>>
NX == <<1, 0, 0>>
UV0 == <<0, 0>>
UV1 == <<1, 0>>

\* corners [pos, normal, uv] that differ in one part each
VertexInputs ==
    { [pos |-> PO, normal |-> NZ, uv |-> UV0],
      [pos |-> PO, normal |-> NX, uv |-> UV0],
      [pos |-> PO, normal |-> NZ, uv |-> UV1],
      [pos |-> PX, normal |-> NZ, uv |-> UV0] }

InitWeld ==
    /\ triangles = <<>>
    /\ last = Op("new", "")
    /\ out = NoOut

WeldAddTriangle ==
    /\ numTri(triangles) < MaxWeldTri
    /\ \E v0, v1, v2 \in VertexInputs :
          triangles' = addTriangleWithData(triangles, v0.pos, v1.pos, v2.pos,
                                           v0.normal, v1.normal, v2.normal,
                                           v0.uv, v1.uv, v2.uv)
    /\ last' = Op("addTriangle", "")
    /\ out' = NoOut

\* a quad whose sub-quads have corners on whole numbers
WeldQuadSubDivisions == {1, 8}

WeldAddSubdivQuad ==
    /\ numTri(triangles) = 0
    /\ \E s \in WeldQuadSubDivisions :
          triangles' = addSubdivQuadWithData(triangles, <<0, 0, 0>>, <<64, 0, 0>>,
                                             <<0, 64, 0>>, <<64, 64, 0>>, 1, s)
    /\ last' = Op("addSubdivQuad", "")
    /\ out' = NoOut

WeldFinalizeSubmesh ==
    /\ numTri(triangles) > 0
    /\ triangles' = triangles
    /\ last' = Op("finalizeSubmesh", "")
    /\ out' = finalizeSubmesh(triangles, AllTriangles(triangles))

NextWeld ==
    \/ WeldAddTriangle
    \/ WeldAddSubdivQuad
    \/ WeldFinalizeSubmesh

SpecWeld == InitWeld /\ [][NextWeld]_vars

(***************************************************************************)
(* The two buffer functions of BaseManifoldWLMesh on their own, called     *)
(* with counts around the limits of the three element types.               *)
(***************************************************************************)
CountInputs ==
    { Num(0), Num(1), Num(2), Num(MaxUint8), Num(MaxUint8 + 1), Num(MaxUint8 + 2),
      Num(MaxUint16), Num(MaxUint16 + 1), Num(MaxUint16 + 2),
      MAX_INDEX,
      [hi |-> MaxUint16 + 1, lo |-> 0],
      [hi |-> MaxUint16 + 1, lo |-> 1] }

InitWidth ==
    /\ triangles = <<>>
    /\ last = Op("new", "")
    /\ out = NoOut

\* a call with the largest submesh and the last submesh index no larger than
\* the triangle count, as finalize (line 660) makes it
MakeSubmeshMapBuffer ==
    \E triCount, maxSubmeshTriCount, maxSubmeshIdx \in CountInputs :
        LET width == makeSubmeshMapBuffer(triCount, maxSubmeshTriCount, maxSubmeshIdx)
        IN /\ NumLeq(maxSubmeshTriCount, triCount)
           /\ NumLeq(maxSubmeshIdx, triCount)
           /\ triangles' = triangles
           /\ last' = Op("makeSubmeshMapBuffer",
                         IF width = NoWidth THEN "Maximum index exceeded" ELSE "")
           /\ out' = [ triCount           |-> triCount,
                       maxSubmeshTriCount |-> maxSubmeshTriCount,
                       maxSubmeshIdx      |-> maxSubmeshIdx,
                       width              |-> width ]

\* a call with size = vertexCount, as finalizeSubmesh (line 517) makes it
MakeIndexBuffer ==
    \E indexCount \in CountInputs :
        LET width == makeIndexBuffer(indexCount, indexCount)
        IN /\ triangles' = triangles
           /\ last' = Op("makeIndexBuffer",
                         IF width = NoWidth THEN "Maximum index exceeded" ELSE "")
           /\ out' = [ size        |-> indexCount,
                       vertexCount |-> indexCount,
                       width       |-> width ]

NextWidth ==
    \/ MakeSubmeshMapBuffer
    \/ MakeIndexBuffer

SpecWidth == InitWidth /\ [][NextWidth]_vars

(***************************************************************************)
(* The builder with normals: triangles added with hard normals or without  *)
(* normals, connected, and smoothed.                                       *)
(***************************************************************************)
MaxSmoothTri == 3

\* a triangle, the same triangle wound the other way, a neighbour in another
\* plane and a neighbour in the same plane
SmoothTriangleInputs ==
    { <<PO, PY, PX>>, <<PO, PX, PY>>, <<PX, PY, PZ>>, <<PX, PY, PW>> }

\* maximum angles, in quarter turns: below 0, 0, pi / 2, pi and above pi
AngleInputs == { -1, 0, 1, PI, PI + 1 }

InitSmooth ==
    /\ triangles = <<>>
    /\ last = Op("new", "")
    /\ out = NoOut

SmoothAddTriangle ==
    /\ numTri(triangles) < MaxSmoothTri
    /\ \E p \in SmoothTriangleInputs :
          triangles' = addTriangleHardNormals(triangles, p[1], p[2], p[3])
    /\ last' = Op("addTriangle", "")
    /\ out' = NoOut

SmoothAddTriangleNoNormals ==
    /\ numTri(triangles) < MaxSmoothTri
    /\ \E p \in SmoothTriangleInputs :
          triangles' = addTriangleNoNormals(triangles, p[1], p[2], p[3])
    /\ last' = Op("addTriangleNoNormals", "")
    /\ out' = NoOut

SmoothAutoConnectAllEdges ==
    /\ triangles' = autoConnectAllEdges(triangles)
    /\ last' = Op("autoConnectAllEdges", "")
    /\ out' = NoOut

\* out keeps the arguments of the call, the triangles before it and the
\* smoothing groups it made
AddSmoothNormals ==
    \E maxAngle \in AngleInputs, resetNormals \in BOOLEAN :
        LET st == addSmoothNormals(triangles, maxAngle, resetNormals) IN
        /\ triangles' = st.ts
        /\ last' = Op("addSmoothNormals", "")
        /\ out' = [ before       |-> triangles,
                    maxAngle     |-> maxAngle,
                    resetNormals |-> resetNormals,
                    groups       |-> st.groups ]

NextSmooth ==
    \/ SmoothAddTriangle
    \/ SmoothAddTriangleNoNormals
    \/ SmoothAutoConnectAllEdges
    \/ AddSmoothNormals

SpecSmooth == InitSmooth /\ [][NextSmooth]_vars

(***************************************************************************)
(* The builder with the optional arguments of addTriangle and              *)
(* addTriangleNoNormals.                                                   *)
(***************************************************************************)
MaxAddTri == 3

NormalInputs == { << NZ, NX, NZ >> }

UVInputs == { << UV1, UV0, UV1 >> }

\* the argument lists of the overloads of addTriangle: positions only, with
\* normals, with UVs, with normals and UVs
AddTriangleArgs ==
    { <<uvNormal, uv>> \in (({NoArg} \cup NormalInputs \cup UVInputs)
                               \X ({NoArg} \cup UVInputs)) :
        uv # NoArg => uvNormal \in NormalInputs }

InitAdd ==
    /\ triangles = <<>>
    /\ last = Op("new", "")
    /\ out = NoOut

\* out keeps the arguments of the call and the triangles before it
AddTriangleData ==
    /\ numTri(triangles) < MaxAddTri
    /\ \E pos \in SmoothTriangleInputs, args \in AddTriangleArgs :
          /\ triangles' = addTriangleData(triangles, pos, args[1], args[2])
          /\ out' = [ before |-> triangles, pos |-> pos,
                      uvNormal |-> args[1], uv |-> args[2] ]
    /\ last' = Op("addTriangle", "")

AddTriangleNoNormalsData ==
    /\ numTri(triangles) < MaxAddTri
    /\ \E pos \in SmoothTriangleInputs, uv \in {NoArg} \cup UVInputs :
          /\ triangles' = addTriangleNoNormalsData(triangles, pos, uv)
          /\ out' = [ before |-> triangles, pos |-> pos,
                      uvNormal |-> NoArg, uv |-> uv ]
    /\ last' = Op("addTriangleNoNormals", "")

AddAutoConnectAllEdges ==
    /\ triangles' = autoConnectAllEdges(triangles)
    /\ last' = Op("autoConnectAllEdges", "")
    /\ out' = NoOut

NextAdd ==
    \/ AddTriangleData
    \/ AddTriangleNoNormalsData
    \/ AddAutoConnectAllEdges

SpecAdd == InitAdd /\ [][NextAdd]_vars

(***************************************************************************)
(* A BaseManifoldWLMesh over submeshes taken from a few WL.Mesh objects.   *)
(* The variable out holds the mesh object.                                 *)
(***************************************************************************)
MaxSubmeshes == 2

\* the WL.Mesh objects, numbered from 1: a triangle without index data, a
\* square of two indexed triangles, two indexed triangles with a repeated
\* packed vertex, four vertices without index data, a mesh without vertices,
\* and index data of five entries
WLMeshes ==
    << [ positions |-> <<PO, PY, PX>>, indexed |-> FALSE, indexData |-> <<>> ],
       [ positions |-> <<PO, PX, PY, PW>>, indexed |-> TRUE,
         indexData |-> <<0, 2, 1, 1, 2, 3>> ],
       [ positions |-> <<PX, PY, PZ, PX>>, indexed |-> TRUE,
         indexData |-> <<0, 1, 2, 3, 2, 1>> ],
       [ positions |-> <<PO, PY, PX, PW>>, indexed |-> FALSE, indexData |-> <<>> ],
       [ positions |-> <<>>, indexed |-> TRUE, indexData |-> <<>> ],
       [ positions |-> <<PO, PY, PX>>, indexed |-> TRUE,
         indexData |-> <<0, 1, 2, 0, 1>> ] >>

\* new BaseManifoldWLMesh(submeshes), submesh k with material k
SubmeshInputs ==
    { <<>> }
        \cup { << [mesh |-> a, material |-> 1] >> : a \in 1..Len(WLMeshes) }
        \cup { << [mesh |-> a, material |-> 1], [mesh |-> b, material |-> 2] >> :
                 a, b \in 1..Len(WLMeshes) }

\* positions whose hash may collide with that of another position
CollisionInputs == SUBSET {PX, PY}

InitMesh ==
    /\ triangles = <<>>
    /\ last = Op("new", "")
    /\ \E submeshes \in SubmeshInputs :
          out = [ submeshes           |-> submeshes,
                  premadeManifoldMesh |-> Null,
                  submeshMap          |-> Null,
                  destroyed           |-> [ m \in 1..Len(WLMeshes) |-> 0 ] ]

ManifoldMesh ==
    \E collisions \in CollisionInputs :
        LET r == manifoldMeshGetter(out, WLMeshes, collisions) IN
        /\ out' = r.obj
        /\ last' = Op("manifoldMesh", r.err)
        /\ triangles' = triangles

GetSubmesh ==
    \E submeshIdx \in -1..MaxSubmeshes :
        /\ last' = Op("getSubmesh", getSubmesh(out, submeshIdx).err)
        /\ out' = out
        /\ triangles' = triangles

GetTriBarySubmesh ==
    \E triIdx \in -1..(2 * MaxSubmeshes) :
        /\ last' = Op("getTriBarySubmesh", getTriBarySubmesh(out, triIdx).err)
        /\ out' = out
        /\ triangles' = triangles

Dispose ==
    /\ out' = dispose(out)
    /\ last' = Op("dispose", "")
    /\ triangles' = triangles

NextMesh ==
    \/ ManifoldMesh
    \/ GetSubmesh
    \/ GetTriBarySubmesh
    \/ Dispose

SpecMesh == InitMesh /\ [][NextMesh]_vars

(***************************************************************************)
(* The builder fed with closed surfaces: the faces of the tetrahedron      *)
(* O, X, Y, Z, each with its corners in any order, added in any order.     *)
(***************************************************************************)
MaxClosedTri == 4

TetraVertices == { PO, PX, PY, PZ }

ClosedTriangleInputs ==
    { p \in TetraVertices \X TetraVertices \X TetraVertices :
        p[1] # p[2] /\ p[2] # p[3] /\ p[3] # p[1] }

InitClosed ==
    /\ triangles = <<>>
    /\ last = Op("new", "")
    /\ out = NoOut

\* triangles are added while no edge has been connected yet
ClosedAddTriangle ==
    /\ numTri(triangles) < MaxClosedTri
    /\ last.op # "autoConnectAllEdges"
    /\ \E p \in ClosedTriangleInputs :
          triangles' = addTriangle(triangles, p[1], p[2], p[3])
    /\ last' = Op("addTriangle", "")
    /\ out' = NoOut

\* out keeps the triangles before the call
ClosedAutoConnectAllEdges ==
    /\ triangles' = autoConnectAllEdges(triangles)
    /\ last' = Op("autoConnectAllEdges", "")
    /\ out' = [ before |-> triangles ]

NextClosed ==
    \/ ClosedAddTriangle
    \/ ClosedAutoConnectAllEdges

SpecClosed == InitClosed /\ [][NextClosed]_vars

(***************************************************************************)
(* The builder under the operations that write the helper of a triangle.   *)
(***************************************************************************)
\* triangles are added to lists shorter than this
MaxHelperTri == 5
\* subDivide4 is taken on lists of at most this many triangles
MaxHelperSubdivTri == 2

InitHelpers ==
    /\ triangles = <<>>
    /\ last = Op("new", "")
    /\ out = NoOut

HelpersAddTriangle ==
    /\ numTri(triangles) < MaxHelperTri
    /\ \E p \in TriangleInputs :
          triangles' = addTriangle(triangles, p[1], p[2], p[3])
    /\ last' = Op("addTriangle", "")
    /\ out' = NoOut

HelpersAddTriangleNoNormals ==
    /\ numTri(triangles) < MaxHelperTri
    /\ \E p \in TriangleInputs :
          triangles' = addTriangleNoNormals(triangles, p[1], p[2], p[3])
    /\ last' = Op("addTriangleNoNormals", "")
    /\ out' = NoOut

HelpersAddSubdivQuad ==
    /\ numTri(triangles) <= MaxQuadBase
    /\ \E q \in QuadInputs, m \in QuadMaterials, s \in QuadSubDivisions :
          triangles' = addSubdivQuad(triangles, q[1], q[2], q[3], q[4], m, s)
    /\ last' = Op("addSubdivQuad", "")
    /\ out' = NoOut

HelpersSetTriangleHelpers ==
    /\ triangles' = setTriangleHelpers(triangles)
    /\ last' = Op("setTriangleHelpers", "")
    /\ out' = NoOut

HelpersSubDivide4 ==
    /\ numTri(triangles) <= MaxHelperSubdivTri
    /\ triangles' = subDivide4(triangles)
    /\ last' = Op("subDivide4", "")
    /\ out' = NoOut

NextHelpers ==
    \/ HelpersAddTriangle
    \/ HelpersAddTriangleNoNormals
    \/ HelpersAddSubdivQuad
    \/ HelpersSetTriangleHelpers
    \/ HelpersSubDivide4

SpecHelpers == InitHelpers /\ [][NextHelpers]_vars

(***************************************************************************)
(* The connectivity traversals step by step.  While a traversal runs, out  *)
(* holds its local state: the visited bits, the work left (the queue of    *)
(* isConnected, or for connectTriangles the stack of the calls in          *)
(* progress, the innermost last) and, for every triangle, how often it was *)
(* expanded.  The builder is only changed between traversals: every        *)
(* operation runs to completion on the calling thread.                     *)
(***************************************************************************)
MaxTraverseTri == 3

Running(name) == IF out = NoOut THEN FALSE ELSE out.run = name /\ ~out.done

Idle == IF out = NoOut THEN TRUE ELSE out.done

ZeroCounts(ts) == [ i \in 1..numTri(ts) |-> 0 ]

\* a call of connectTriangles(ti, ...) about to start
CallFrame(ti) ==
    [ pc |-> "call", ti |-> ti, oti |-> 0, edgeIdx |-> 0,
      missing |-> <<FALSE, FALSE, FALSE>>, left |-> 0, queue |-> <<>>, k |-> 1 ]

\* the stack without its innermost frame
Return(work) == SubSeq(work, 1, Len(work) - 1)

InitTraverse ==
    /\ triangles = <<>>
    /\ last = Op("new", "")
    /\ out = NoOut

TraverseAddTriangle ==
    /\ Idle
    /\ numTri(triangles) < MaxTraverseTri
    /\ \E p \in SmoothTriangleInputs :
          triangles' = addTriangle(triangles, p[1], p[2], p[3])
    /\ last' = Op("addTriangle", "")
    /\ out' = NoOut

TraverseAutoConnectAllEdges ==
    /\ Idle
    /\ triangles' = autoConnectAllEdges(triangles)
    /\ last' = Op("autoConnectAllEdges", "")
    /\ out' = NoOut

\* lines 589-590
IsConnectedStart ==
    /\ Idle
    /\ numTri(triangles) > 0
    /\ out' = [ run |-> "isConnected", done |-> FALSE, visited |-> {},
                work |-> <<0>>, count |-> ZeroCounts(triangles),
                before |-> triangles, result |-> FALSE ]
    /\ last' = Op("isConnected", "")
    /\ UNCHANGED triangles

\* lines 591-615: one turn of the while loop
IsConnectedStep ==
    /\ Running("isConnected")
    /\ Len(out.work) > 0
    /\ LET next == out.work[Len(out.work)]
           rest == SubSeq(out.work, 1, Len(out.work) - 1)
       IN IF next \in out.visited
          THEN out' = [out EXCEPT !.work = rest]
          ELSE out' = [out EXCEPT !.visited = @ \cup {next},
                                  !.count[next + 1] = @ + 1,
                                  !.work = pushConnected(triangles, rest, next)]
    /\ UNCHANGED <<triangles, last>>

\* line 617
IsConnectedReturn ==
    /\ Running("isConnected")
    /\ Len(out.work) = 0
    /\ out' = [out EXCEPT !.done = TRUE,
                          !.result = isAllSet(out.visited, numTri(triangles))]
    /\ UNCHANGED <<triangles, last>>

\* lines 1133-1148
AutoConnectEdgesStart ==
    /\ Idle
    /\ triangles' = disconnectAllEdges(triangles)
    /\ out' = [ run |-> "autoConnectEdges", done |-> numTri(triangles) = 0,
                visited |-> {},
                work |-> IF numTri(triangles) = 0 THEN <<>> ELSE << CallFrame(0) >>,
                count |-> ZeroCounts(triangles),
                before |-> triangles, result |-> FALSE ]
    /\ last' = Op("autoConnectEdgesFlood", "")

\* callEnter without the test of the visited bit
callEnterUnchecked(ts, run, f) ==
    LET missing == MissingEdges(ts, f.ti)
        left    == MissingCount(missing)
    IN [run EXCEPT
          !.visited = @ \cup {f.ti},
          !.count[f.ti + 1] = @ + 1,
          !.work = IF left = 0 THEN Return(run.work)
                   ELSE [run.work EXCEPT ![Len(run.work)] =
                           [f EXCEPT !.pc = "scan", !.missing = missing,
                                     !.left = left]]]

\* lines 990-1032: entry of the call of frame f
callEnter(ts, run, f) ==
    IF f.ti \in run.visited THEN [run EXCEPT !.work = Return(run.work)]
    ELSE LET missing == MissingEdges(ts, f.ti)
             left    == MissingCount(missing)
         IN [run EXCEPT
               !.visited = @ \cup {f.ti},
               !.count[f.ti + 1] = @ + 1,
               !.work = IF left = 0 THEN Return(run.work)
                        ELSE [run.work EXCEPT ![Len(run.work)] =
                                [f EXCEPT !.pc = "scan", !.missing = missing,
                                          !.left = left]]]

\* the frame at the next edge of the other triangle, or at the next triangle
nextEdge(f) ==
    IF f.edgeIdx = 2 THEN [f EXCEPT !.oti = @ + 1, !.edgeIdx = 0]
    ELSE [f EXCEPT !.edgeIdx = @ + 1]

\* lines 1034-1067: one turn of the loop over the edges, inside the loop over
\* the other triangles; the result is [ts, f]
callScan(ts, run, f) ==
    IF f.oti >= numTri(ts) THEN [ts |-> ts, f |-> [f EXCEPT !.pc = "visit"]]
    ELSE IF f.oti \in run.visited
    THEN [ts |-> ts, f |-> [f EXCEPT !.oti = @ + 1, !.edgeIdx = 0]]
    ELSE IF ~f.missing[f.edgeIdx + 1] THEN [ts |-> ts, f |-> nextEdge(f)]
    ELSE IF triGetMatchingEdge(ts, f.ti, f.edgeIdx, NextIdx(f.edgeIdx), f.oti) = NoMatch
    THEN [ts |-> ts, f |-> nextEdge(f)]
    ELSE [ ts |-> connectEdge(ts, f.oti,
                      triGetMatchingEdge(ts, f.ti, f.edgeIdx, NextIdx(f.edgeIdx), f.oti),
                      f.edgeIdx, f.ti),
           f  |-> [nextEdge(f) EXCEPT
                     !.pc = IF f.left = 1 THEN "visit" ELSE "scan",
                     !.missing[f.edgeIdx + 1] = FALSE,
                     !.left = @ - 1,
                     !.queue = Append(@, f.oti)] ]

\* lines 1069-1072: one turn of the visit loop, or the return of the call
callVisit(run, f) ==
    IF f.k > Len(f.queue) THEN Return(run.work)
    ELSE Append([run.work EXCEPT ![Len(run.work)] = [f EXCEPT !.k = @ + 1]],
                CallFrame(f.queue[f.k]))

\* the next step of the innermost call in progress; the result is [ts, run]
connectTrianglesStep(ts, run) ==
    LET f == run.work[Len(run.work)] IN
    IF f.pc = "call" THEN [ts |-> ts, run |-> callEnter(ts, run, f)]
    ELSE IF f.pc = "scan"
    THEN [ ts  |-> callScan(ts, run, f).ts,
           run |-> [run EXCEPT !.work[Len(run.work)] = callScan(ts, run, f).f] ]
    ELSE [ts |-> ts, run |-> [run EXCEPT !.work = callVisit(run, f)]]

ConnectTrianglesStep ==
    /\ Running("autoConnectEdges")
    /\ Len(out.work) > 0
    /\ triangles' = connectTrianglesStep(triangles, out).ts
    /\ out' = connectTrianglesStep(triangles, out).run
    /\ UNCHANGED last

\* lines 1150-1154
AutoConnectEdgesReturn ==
    /\ Running("autoConnectEdges")
    /\ Len(out.work) = 0
    /\ out' = [out EXCEPT !.done = TRUE,
                          !.result = isAllSet(out.visited, numTri(triangles))]
    /\ last' = Op("autoConnectEdgesFlood",
                  IF isAllSet(out.visited, numTri(triangles)) THEN ""
                  ELSE "Could not connect all triangles")
    /\ UNCHANGED triangles

\* the steps of a traversal in progress
TraverseStep ==
    \/ IsConnectedStep
    \/ IsConnectedReturn
    \/ ConnectTrianglesStep
    \/ AutoConnectEdgesReturn

NextTraverse ==
    \/ TraverseAddTriangle
    \/ TraverseAutoConnectAllEdges
    \/ IsConnectedStart
    \/ AutoConnectEdgesStart
    \/ TraverseStep

\* a traversal in progress is not suspended: nothing yields
SpecTraverse == InitTraverse /\ [][NextTraverse]_vars /\ WF_vars(TraverseStep)

(***************************************************************************)
(* Vocabulary of the properties.                                           *)
(***************************************************************************)
\* two links are the same: both absent, or the same (triangle, edge)
SameLink(a, b) ==
    IF a # NoEdge /\ b # NoEdge THEN a.tri = b.tri /\ a.edge = b.edge
    ELSE (a # NoEdge) = (b # NoEdge)

\* edge e of t is linked to edge oe of o
LinkedTo(ts, t, e, oe, o) ==
    /\ isEdgeConnected(ts, t, e)
    /\ getConnectedEdge(ts, t, e).tri = o
    /\ getConnectedEdge(ts, t, e).edge = oe

\* every link points at a triangle of the list whose link points back
AdjacencySymmetric(ts) ==
    \A t \in PickRange(ts), e \in Edges :
        isEdgeConnected(ts, t, e) =>
            /\ getConnectedEdge(ts, t, e).tri \in PickRange(ts)
            /\ LinkedTo(ts, getConnectedEdge(ts, t, e).tri,
                        getConnectedEdge(ts, t, e).edge, e, t)

SameAdjacency(a, b) ==
    /\ numTri(a) = numTri(b)
    /\ \A t \in PickRange(a), e \in Edges :
          SameLink(getConnectedEdge(a, t, e), getConnectedEdge(b, t, e))

\* the same triangles but for their links
SameTriangleData(a, b) ==
    /\ numTri(a) = numTri(b)
    /\ \A t \in PickRange(a) :
          /\ Tri(a, t).pos = Tri(b, t).pos
          /\ Tri(a, t).materialID = Tri(b, t).materialID
          /\ Tri(a, t).helper = Tri(b, t).helper

HelpersAreIndices(ts) == \A t \in PickRange(ts) : Tri(ts, t).helper = t

\* R and the triangles one link away from R
linkedTriangles(ts, R) ==
    R \cup { getConnectedEdge(ts, x[1], x[2]).tri :
                x \in { y \in R \X Edges : isEdgeConnected(ts, y[1], y[2]) } }

RECURSIVE reachFrom(_, _)
reachFrom(ts, R) ==
    IF linkedTriangles(ts, R) = R THEN R ELSE reachFrom(ts, linkedTriangles(ts, R))

\* the triangles reachable from triangle 0 through links, the list non-empty
Reachable(ts) == reachFrom(ts, {0})

AllReachable(ts) == Reachable(ts) = PickRange(ts)

\* the end points of edge e of t, as a set
EdgeEnds(ts, t, e) == { getPosition(ts, t, e), getPosition(ts, t, NextIdx(e)) }

(***************************************************************************)
(* Properties.                                                             *)
(***************************************************************************)
\* C1: adjacency symmetry.  After any sequence of builder operations, if
\* edge i of triangle T is connected to (U, j) then edge j of U is connected
\* to (T, i).
C1_AdjacencySymmetric == AdjacencySymmetric(triangles)

\* a list in which three triangles have an edge on the same two points, two
\* of them linked there and the third not
C1_Witness ==
    /\ numTri(triangles) >= 3
    /\ \E t, o, u \in PickRange(triangles), e, oe, ue \in Edges :
          /\ t # o /\ t # u /\ o # u
          /\ LinkedTo(triangles, t, e, oe, o)
          /\ EdgeEnds(triangles, u, ue) = EdgeEnds(triangles, t, e)
          /\ last.op \in {"autoConnectAllEdgesOfSubset", "autoConnectEdgesList"}

\* C2: subDivide4 on n triangles leaves exactly 4n triangles, the children
\* of the original triangle t at 4t .. 4t+3 in the order corner-top
\* (v0, v01, v20), corner-bottom-left (v01, v1, v12), corner-bottom-right
\* (v20, v12, v2), center (v12, v20, v01).
C2_SubDivide4Children ==
    [][ last'.op = "subDivide4" =>
          /\ numTri(triangles') = 4 * numTri(triangles)
          /\ \A t \in PickRange(triangles) :
                LET v0  == getPosition(triangles, t, 0)
                    v1  == getPosition(triangles, t, 1)
                    v2  == getPosition(triangles, t, 2)
                    v01 == getVertexMid(v0, v1)
                    v12 == getVertexMid(v1, v2)
                    v20 == getVertexMid(v2, v0)
                IN /\ Tri(triangles', 4 * t).pos     = <<v0, v01, v20>>
                   /\ Tri(triangles', 4 * t + 1).pos = <<v01, v1, v12>>
                   /\ Tri(triangles', 4 * t + 2).pos = <<v20, v12, v2>>
                   /\ Tri(triangles', 4 * t + 3).pos = <<v12, v20, v01>> ]_vars

C2_Witness ==
    /\ last.op = "subDivide4"
    /\ numTri(triangles) = 12
    /\ Tri(triangles, 4).pos # Tri(triangles, 0).pos

\* C3: subdivision keeps the mesh connected.  If every triangle is reachable
\* from triangle 0 before subDivide4 (adjacency symmetric, helpers equal to
\* indices), every triangle is reachable from triangle 0 afterwards and
\* isConnected holds.
C3_SubDivide4KeepsConnected ==
    [][ ( /\ last'.op = "subDivide4"
          /\ numTri(triangles) > 0
          /\ AllReachable(triangles)
          /\ AdjacencySymmetric(triangles)
          /\ HelpersAreIndices(triangles) )
        => ( /\ AllReachable(triangles')
             /\ isConnected(triangles') ) ]_vars

C3_Witness ==
    /\ last.op = "subDivide4"
    /\ numTri(triangles) >= 8
    /\ AllReachable(triangles)
    /\ isConnected(triangles)

\* C4: when flood-fill autoConnectEdges returns without error on a non-empty
\* list, every triangle was visited and every triangle is reachable from
\* triangle 0 through the links it built; when a triangle is left unvisited
\* it raises the connectivity error.
C4_FloodFillConnected ==
    (last.op = "autoConnectEdgesFlood" /\ numTri(triangles) > 0) =>
        /\ last.err = "" =>
              /\ isAllSet(last.visited, numTri(triangles))
              /\ AllReachable(triangles)
        /\ ~isAllSet(last.visited, numTri(triangles)) =>
              last.err = "Could not connect all triangles"

C4_Witness ==
    /\ last.op = "autoConnectEdgesFlood"
    /\ last.err = ""
    /\ numTri(triangles) >= 3
    /\ last.visited = PickRange(triangles)

\* C5: finalize fails with 'Mesh is not connected', returning nothing,
\* whenever some triangle is not reachable from triangle 0; it proceeds only
\* when all triangles are reachable.
C5_FinalizeRequiresConnected ==
    (last.op = "finalize" /\ numTri(triangles) > 0) =>
        /\ ~AllReachable(triangles) =>
              (last.err = "Mesh is not connected" /\ out = NoOut)
        /\ out # NoOut => AllReachable(triangles)

C5_Witness ==
    /\ last.op = "finalize"
    /\ last.err = "Mesh is not connected"
    /\ numTri(triangles) >= 2
    /\ ~AllReachable(triangles)
    /\ out = NoOut

Range(s) == { s[i] : i \in 1..Len(s) }

\* a call of one of the two autoConnectEdges ended with an error
ConnectionFailed ==
    /\ last'.op \in {"autoConnectEdgesFlood", "autoConnectEdgesList"}
    /\ last'.err # ""

C7_EdgeListConnectsOrFails ==
    numTri(triangles) <= MaxPick =>
        \A edges \in EdgeListInputs(triangles), pool \in PoolInputs(triangles) :
            LET r == autoConnectEdgesList(triangles, edges, pool)
                unmatched(k) ==
                    LET pre == autoConnectEdgesList(
                                   triangles, SubSeq(edges, 1, k - 1), pool)
                    IN /\ pre.err = ""
                       /\ ~isEdgeConnected(pre.ts, edges[k][1], edges[k][2])
                       /\ \A o \in Range(pool) \ {edges[k][1]} :
                             triGetMatchingEdge(pre.ts, edges[k][1], edges[k][2],
                                                NextIdx(edges[k][2]), o) = NoMatch
            IN /\ (\E k \in 1..Len(edges) : unmatched(k))
                     => r.err = "Could not auto-connect edge"
               /\ r.err = "" =>
                     \A k \in 1..Len(edges) :
                         isEdgeConnected(r.ts, edges[k][1], edges[k][2])

\* C8: auto-connection never replaces an existing connection.  Over a call
\* of autoConnectAllEdgesOfSubset or of edge-list autoConnectEdges, every
\* edge of any triangle that was connected before the call is still
\* connected to the same (triangle, edge) afterwards.
C8_NoReplacement ==
    [][ last'.op \in {"autoConnectAllEdgesOfSubset", "autoConnectEdgesList"} =>
          \A t \in PickRange(triangles), e \in Edges :
              isEdgeConnected(triangles, t, e) =>
                  SameLink(getConnectedEdge(triangles', t, e),
                           getConnectedEdge(triangles, t, e)) ]_vars

\* C9: autoConnectAllEdgesOfSubset(S) only connects triangles of S.  Every
\* connection it creates is between two different members of S.
C9_SubsetOnly ==
    numTri(triangles) <= MaxPick =>
        \A S \in SubsetInputs(triangles) :
            LET r == autoConnectAllEdgesOfSubset(triangles, S) IN
            \A t \in PickRange(triangles), e \in Edges :
                ( /\ isEdgeConnected(r, t, e)
                  /\ ~SameLink(getConnectedEdge(r, t, e),
                               getConnectedEdge(triangles, t, e)) )
                => ( /\ t \in Range(S)
                     /\ getConnectedEdge(r, t, e).tri \in Range(S)
                     /\ getConnectedEdge(r, t, e).tri # t )

\* C10: after a successful finalize on n triangles the SubmeshMap has length
\* 2n; for the triangle at index t, entry 2t is the index of the submesh
\* holding it and entry 2t+1 its position in that submesh; every slot is
\* written and different triangles have different pairs.
C10_SubmeshMap ==
    out # NoOut =>
        /\ Len(out.submeshMap) = 2 * numTri(triangles)
        /\ \A t \in PickRange(triangles) :
              /\ out.submeshMap[2 * t + 1] \in 0..(Len(out.submeshes) - 1)
              /\ out.submeshMap[2 * t + 2] \in
                    0..(Len(out.submeshes[out.submeshMap[2 * t + 1] + 1].triangles) - 1)
              /\ out.submeshes[out.submeshMap[2 * t + 1] + 1]
                    .triangles[out.submeshMap[2 * t + 2] + 1] = t
        /\ \A t, u \in PickRange(triangles) :
              t # u => \/ out.submeshMap[2 * t + 1] # out.submeshMap[2 * u + 1]
                       \/ out.submeshMap[2 * t + 2] # out.submeshMap[2 * u + 2]

\* a result with two submeshes, the first triangle of the list not in the
\* first of them
C10_Witness ==
    /\ out # NoOut
    /\ numTri(triangles) >= 3
    /\ Len(out.submeshes) >= 2
    /\ out.submeshMap[1] = 1

\* the material a material map assigns to an identifier, NullMaterial when
\* it assigns none
AssignedMaterial(materialMap, materialID) ==
    IF \E k \in 1..Len(materialMap) : materialMap[k][1] = materialID
    THEN materialMap[CHOOSE k \in 1..Len(materialMap) :
                         materialMap[k][1] = materialID][2]
    ELSE NullMaterial

\* the submeshes of the last result that hold triangle t
SubmeshesOf(t) ==
    { k \in 1..Len(out.submeshes) : t \in Range(out.submeshes[k].triangles) }

SameSubmesh(t, u) == SubmeshesOf(t) \cap SubmeshesOf(u) # {}

\* C11, as stated: finalize buckets triangles by material identifier.  Two
\* triangles are in the same submesh if and only if they have the same
\* material identifier or both identifiers have no material assigned.
C11_BucketsByIdentifier ==
    out # NoOut =>
        \A t, u \in PickRange(triangles) :
            SameSubmesh(t, u) <=>
                \/ Tri(triangles, t).materialID = Tri(triangles, u).materialID
                \/ /\ AssignedMaterial(out.materialMap, Tri(triangles, t).materialID)
                         = NullMaterial
                   /\ AssignedMaterial(out.materialMap, Tri(triangles, u).materialID)
                         = NullMaterial

\* C11, amended: finalize buckets triangles by the material that the
\* material map assigns to their identifier.  Every triangle is in exactly
\* one submesh, and two triangles are in the same submesh if and only if
\* their identifiers are assigned the same material, no material counting
\* as one material of its own.
C11_BucketsByMaterial ==
    out # NoOut =>
        /\ \A t \in PickRange(triangles) : Cardinality(SubmeshesOf(t)) = 1
        /\ \A t, u \in PickRange(triangles) :
              SameSubmesh(t, u) <=>
                  AssignedMaterial(out.materialMap, Tri(triangles, t).materialID)
                      = AssignedMaterial(out.materialMap, Tri(triangles, u).materialID)

\* a result in which one submesh holds triangles of two identifiers that
\* are assigned the same material
C11_Witness ==
    /\ out # NoOut
    /\ \E t, u \in PickRange(triangles) :
          /\ Tri(triangles, t).materialID # Tri(triangles, u).materialID
          /\ SameSubmesh(t, u)
          /\ AssignedMaterial(out.materialMap, Tri(triangles, t).materialID)
                # NullMaterial

\* the identifier of the last entry of the material map that holds the material
LastIdentifier(materialMap, material) ==
    materialMap[CHOOSE k \in 1..Len(materialMap) :
                    /\ materialMap[k][2] = material
                    /\ \A k2 \in (k + 1)..Len(materialMap) :
                          materialMap[k2][2] # material][1]

\* the material identifiers of the triangles of submesh k of the last result
SubmeshIdentifiers(k) ==
    { Tri(triangles, t).materialID : t \in Range(out.submeshes[k].triangles) }

\* C12, as stated: the submeshes are ordered by ascending material
\* identifier, the unassigned submesh first: of two submeshes the later one
\* is never the unassigned one, and when both have a material every
\* identifier in the earlier one is below every identifier in the later one.
C12_AscendingIdentifier ==
    out # NoOut =>
        \A j, k \in 1..Len(out.submeshes) :
            j < k =>
                /\ out.submeshes[k].material # NullMaterial
                /\ \/ out.submeshes[j].material = NullMaterial
                   \/ \A a \in SubmeshIdentifiers(j), b \in SubmeshIdentifiers(k) : a < b

\* C12, amended: the unassigned submesh is first, and the submeshes that
\* have a material are ordered by ascending value of the identifier under
\* which the material map lists their material last.
C12_AscendingLastIdentifier ==
    out # NoOut =>
        \A j, k \in 1..Len(out.submeshes) :
            j < k =>
                /\ out.submeshes[k].material # NullMaterial
                /\ \/ out.submeshes[j].material = NullMaterial
                   \/ LastIdentifier(out.materialMap, out.submeshes[j].material)
                        < LastIdentifier(out.materialMap, out.submeshes[k].material)

\* a result with two submeshes that both have a material, one of them
\* listed under two identifiers of the material map
C12_Witness ==
    /\ out # NoOut
    /\ Len(out.submeshes) = 2
    /\ out.submeshes[1].material # NullMaterial
    /\ \E k \in 1..2, a, b \in 1..Len(out.materialMap) :
          /\ a # b
          /\ out.materialMap[a][2] = out.submeshes[k].material
          /\ out.materialMap[b][2] = out.submeshes[k].material

\* a result whose first submesh is the unassigned one, followed by a submesh
\* with a material
C12_WitnessUnassignedFirst ==
    /\ out # NoOut
    /\ Len(out.submeshes) = 2
    /\ out.submeshes[1].material = NullMaterial

\* the vertex data of corner c of the list, corners counted 3 t + i
CornerVertex(c) == vertexData(triangles, c \div 3, c % 3)

Corners == 0..(3 * numTri(triangles) - 1)

\* vertex k of the buffers of the last finalizeSubmesh
EmittedVertex(k) ==
    SubSeq(out.positions, 3 * k + 1, 3 * k + 3)
        \o SubSeq(out.normals, 3 * k + 1, 3 * k + 3)
        \o SubSeq(out.texCoords, 2 * k + 1, 2 * k + 2)

\* the distinct vertex data of the corners before corner c
VerticesBefore(c) == { CornerVertex(d) : d \in 0..(c - 1) }

\* C13: the buffers finalizeSubmesh makes for a bucket hold exactly one
\* vertex per distinct (position, normal, UV) tuple among the corners of the
\* bucket, the vertices are in the order in which their tuples first occur,
\* and the index entry of every corner points at the vertex with the tuple
\* of that corner.
C13_WeldRoundTrip ==
    last.op = "finalizeSubmesh" =>
        /\ Len(out.positions) = 3 * out.vertexCount
        /\ Len(out.normals) = 3 * out.vertexCount
        /\ Len(out.texCoords) = 2 * out.vertexCount
        /\ Len(out.indexData) = 3 * numTri(triangles)
        /\ out.vertexCount = Cardinality({ CornerVertex(c) : c \in Corners })
        /\ \A j, k \in 0..(out.vertexCount - 1) :
              j # k => EmittedVertex(j) # EmittedVertex(k)
        /\ \A c \in Corners :
              /\ out.indexData[c + 1] \in 0..(out.vertexCount - 1)
              /\ EmittedVertex(out.indexData[c + 1]) = CornerVertex(c)
        /\ \A c \in Corners :
              CornerVertex(c) \notin VerticesBefore(c)
                  => out.indexData[c + 1] = Cardinality(VerticesBefore(c))

\* a bucket of two triangles where a tuple of the first triangle occurs
\* again in the second, next to corners that share only the position, and
\* fewer vertices than corners are emitted
C13_Witness ==
    /\ last.op = "finalizeSubmesh"
    /\ numTri(triangles) = 2
    /\ out.vertexCount = 3
    /\ CornerVertex(3) = CornerVertex(1)
    /\ CornerVertex(4) # CornerVertex(0)
    /\ SubSeq(CornerVertex(4), 1, 3) = SubSeq(CornerVertex(0), 1, 3)

\* the number of positions in the manifold position buffer of the last result
NumManifoldVertices == Len(out.manifoldMesh.vertPos) \div 3

\* position k of the manifold position buffer
ManifoldPosition(k) == SubSeq(out.manifoldMesh.vertPos, 3 * k + 1, 3 * k + 3)

\* the manifold vertex index of corner v of triangle t
ManifoldIndex(t, v) == out.manifoldMesh.triVerts[3 * t + v + 1]

\* C14: after a successful finalize on n triangles the triangle-vertex-index
\* buffer of the manifold has exactly 3 n entries, none of them is the
\* unassigned sentinel, and every entry is a non-negative number below the
\* number of positions in the manifold position buffer; the position it
\* points at is the position of the corner.
C14_ManifoldIndicesResolved ==
    out # NoOut =>
        /\ Len(out.manifoldMesh.triVerts) = 3 * numTri(triangles)
        /\ Len(out.manifoldMesh.vertPos) = 3 * NumManifoldVertices
        /\ \A t \in PickRange(triangles), v \in Edges :
              /\ ManifoldIndex(t, v) # INVALID_INDEX
              /\ ManifoldIndex(t, v) >= 0
              /\ ManifoldIndex(t, v) < NumManifoldVertices
              /\ ManifoldPosition(ManifoldIndex(t, v)) = getPosition(triangles, t, v)

\* a result for at least two triangles in which a corner took its index
\* from the vertex star of a corner of an earlier triangle
C14_Witness ==
    /\ out # NoOut
    /\ numTri(triangles) >= 2
    /\ \E t \in PickRange(triangles), v, w \in Edges :
          t > 0 /\ ManifoldIndex(t, v) = ManifoldIndex(0, w)

\* C15: manifold extraction never duplicates a shared vertex: all corners at
\* the same position carry the same manifold vertex index, and the position
\* buffer has one entry per distinct corner position.
C15_NoDuplicateVertex ==
    out # NoOut =>
        /\ \A t, u \in PickRange(triangles), v, w \in Edges :
              getPosition(triangles, t, v) = getPosition(triangles, u, w)
                  => ManifoldIndex(t, v) = ManifoldIndex(u, w)
        /\ NumManifoldVertices
              = Cardinality({ getPosition(triangles, t, v) :
                                t \in PickRange(triangles), v \in Edges })

\* C16: flood-fill autoConnectEdges is idempotent.  Run again on the list a
\* run has left, it gives the same verdict, visits the same triangles and
\* leaves the same adjacency (and the same triangles otherwise), whatever
\* the adjacency before the first run was.
C16_FloodIdempotent ==
    last.op = "autoConnectEdgesFlood" =>
        LET again == autoConnectEdgesFlood(triangles) IN
        /\ again.err = last.err
        /\ again.visited = last.visited
        /\ SameAdjacency(again.ts, triangles)
        /\ again.ts = triangles

\* a list of at least two triangles that a flood fill has linked
C16_Witness ==
    /\ last.op = "autoConnectEdgesFlood"
    /\ numTri(triangles) >= 2
    /\ \E t \in PickRange(triangles), e \in Edges : isEdgeConnected(triangles, t, e)

\* a list that a flood fill has failed on and left with links
C16_WitnessFailed ==
    /\ last.op = "autoConnectEdgesFlood"
    /\ last.err # ""
    /\ \E t \in PickRange(triangles), e \in Edges : isEdgeConnected(triangles, t, e)

\* the largest value an element of the given width holds
LargestOf(width) ==
    IF width = 8 THEN Num(MaxUint8)
    ELSE IF width = 16 THEN Num(MaxUint16)
    ELSE MAX_INDEX

\* width is the narrowest of 8, 16 and 32 bits whose elements hold n
NarrowestFor(width, n) ==
    /\ width \in {8, 16, 32}
    /\ NumLeq(n, LargestOf(width))
    /\ \A w \in {8, 16, 32} : w < width => ~NumLeq(n, LargestOf(w))

\* the largest value finalize stores in the map made by the last call: the
\* last submesh index or the last position in the largest submesh
LargestStored == NumMax(NumMinusOne(out.maxSubmeshTriCount), out.maxSubmeshIdx)

\* C17, as stated: the width of the SubmeshMap is the narrowest of 8, 16 and
\* 32 bits that holds both the largest stored value and the global triangle
\* count, and the capacity error is raised when that requirement is above
\* 0xFFFFFFFF.
C17_WidthCoversTriangleCount ==
    last.op = "makeSubmeshMapBuffer" =>
        LET required == NumMax(LargestStored, out.triCount) IN
        IF NumLeq(required, MAX_INDEX)
        THEN last.err = "" /\ NarrowestFor(out.width, required)
        ELSE last.err = "Maximum index exceeded"

\* C17, amended: the width of the SubmeshMap is the narrowest of 8, 16 and
\* 32 bits that holds max(submesh count - 1, largest submesh triangle
\* count - 1), the largest value stored in it, so no stored value wraps; the
\* global triangle count plays no part.  The capacity error is raised
\* exactly when that maximum is above 0xFFFFFFFF.
C17_WidthCoversStoredValues ==
    last.op = "makeSubmeshMapBuffer" =>
        IF NumLeq(LargestStored, MAX_INDEX)
        THEN last.err = "" /\ NarrowestFor(out.width, LargestStored)
        ELSE last.err = "Maximum index exceeded" /\ out.width = NoWidth

\* a map of 8-bit elements made for more than 255 triangles
C17_Witness ==
    /\ last.op = "makeSubmeshMapBuffer"
    /\ out.width = 8
    /\ ~NumLeq(out.triCount, Num(MaxUint8))
    /\ out.maxSubmeshTriCount = Num(MaxUint8 + 1)

\* a call that raised the capacity error
C17_WitnessCapacity ==
    /\ last.op = "makeSubmeshMapBuffer"
    /\ last.err = "Maximum index exceeded"

\* every entry of the index buffer of the last finalizeSubmesh is held by
\* the index type unchanged: it is the index of the vertex of its corner
IndicesFit ==
    \A c \in Corners :
        /\ out.indexData[c + 1] \in 0..(out.vertexCount - 1)
        /\ NumLeq(Num(out.indexData[c + 1]), LargestOf(out.indexType))
        /\ EmittedVertex(out.indexData[c + 1]) = CornerVertex(c)

\* C18, as stated: the index buffer of a submesh has the smallest of the 8,
\* 16 and 32-bit index types that can represent the number of vertices of
\* the submesh, and every stored index fits.
C18_SmallestForVertexCount ==
    last.op = "finalizeSubmesh" =>
        /\ NarrowestFor(out.indexType, Num(out.vertexCount))
        /\ IndicesFit

\* C18, amended: the index buffer of a submesh has the smallest of the 8, 16
\* and 32-bit index types that can represent three times the number of
\* triangles of the submesh, the vertex count when no two corners are
\* merged.  The vertex count is at most that, so every stored index fits.
C18_SmallestForCornerCount ==
    last.op = "finalizeSubmesh" =>
        /\ NarrowestFor(out.indexType, Num(3 * numTri(triangles)))
        /\ out.vertexCount <= 3 * numTri(triangles)
        /\ IndicesFit

\* a submesh with 16-bit indices whose vertices an 8-bit index could number
C18_Witness ==
    /\ last.op = "finalizeSubmesh"
    /\ out.indexType = 16
    /\ out.vertexCount <= MaxUint8

(***************************************************************************)
(* Normal smoothing.                                                       *)
(***************************************************************************)
\* the corners <<triangle, corner>> of the triangle list
SmoothCorners == { <<t, v>> : t \in 0..(numTri(triangles) - 1), v \in 0..2 }

\* the normal of a corner before the last call
NormalBefore(c) == Tri(out.before, c[1]).normal[c[2] + 1]

\* the normal of a corner now
NormalNow(c) == Tri(triangles, c[1]).normal[c[2] + 1]

\* C19: with resetNormals = false, addSmoothNormals leaves every corner whose
\* normal was non-zero before the call untouched: the corner keeps exactly its
\* previous normal, also when it is in the vertex star of a corner whose
\* normal is zero and gets smoothed.
C19_NonZeroNormalsKept ==
    (last.op = "addSmoothNormals" /\ ~out.resetNormals)
        => \A c \in SmoothCorners :
               NormalBefore(c) # ZeroNormal => NormalNow(c) = NormalBefore(c)

\* the face normal of the triangle of a corner
FaceNormal(c) == hardNormal(triangles, c[1])

\* the vertex star of a corner
StarOf(c) == getVertexStar(triangles, c[1], c[2])

\* C20: smoothing with maximum angle 0 never puts two triangles of a vertex
\* star into the same smoothing group unless their face normals are
\* identical, and with maximum angle pi it puts all triangles of a vertex
\* star into one single group.
C20_AngleExtremes ==
    last.op = "addSmoothNormals"
        => \A k \in 1..Len(out.groups) :
               LET groups == out.groups[k].groups IN
               /\ out.maxAngle = 0
                      => \A g \in 1..Len(groups) :
                             \A a, b \in groups[g] : FaceNormal(a) = FaceNormal(b)
               /\ out.maxAngle = PI
                      => /\ Len(groups) = 1
                         /\ groups[1] = StarOf(out.groups[k].corner)

(***************************************************************************)
(* Adding triangles.                                                       *)
(***************************************************************************)
\* the triangle the last call appended
Added == triangles[Len(triangles)]

\* the supplied triple holds normals (three components each)
SuppliedNormals == out.uvNormal # NoArg /\ Len(out.uvNormal[1]) = 3

\* the UVs the last call supplied, or those of a new triangle
ExpectedUV ==
    IF out.uv # NoArg THEN out.uv
    ELSE IF out.uvNormal # NoArg /\ ~SuppliedNormals THEN out.uvNormal
    ELSE <<ZeroUV, ZeroUV, ZeroUV>>

\* the unit normal of the face with the positions of the last call
FlatNormal == normalFromTriangle(out.pos[1], out.pos[2], out.pos[3])

\* C21: addTriangle stores the flat face normal on all three corners exactly
\* when no normals are supplied (no extra arguments, or UVs only) and stores
\* supplied normals and UVs unchanged otherwise; addTriangleNoNormals leaves
\* the three normals zero.  Each call appends exactly one triangle with no
\* connected edge at the end of the list and leaves the triangles that were
\* there, and their adjacency, unchanged.
C21_AddTriangleData ==
    last.op \in {"addTriangle", "addTriangleNoNormals"}
        => /\ Len(triangles) = Len(out.before) + 1
           /\ SubSeq(triangles, 1, Len(out.before)) = out.before
           /\ Added.pos = out.pos
           /\ Added.edges = <<NoEdge, NoEdge, NoEdge>>
           /\ Added.uv = ExpectedUV
           /\ last.op = "addTriangle"
                  => Added.normal = IF SuppliedNormals THEN out.uvNormal
                                    ELSE <<FlatNormal, FlatNormal, FlatNormal>>
           /\ last.op = "addTriangleNoNormals"
                  => Added.normal = <<ZeroNormal, ZeroNormal, ZeroNormal>>

\* a triangle was added with UVs only to a list that has connected triangles,
\* and its flat normal differs from the zero vector
C21_Witness ==
    /\ last.op = "addTriangle"
    /\ out.uvNormal \in UVInputs
    /\ out.uv = NoArg
    /\ FlatNormal # ZeroNormal
    /\ \E t \in 0..(Len(out.before) - 1), e \in Edges : isEdgeConnected(out.before, t, e)

\* a triangle was added with normals and UVs
C21_WitnessSupplied ==
    /\ last.op = "addTriangle"
    /\ out.uvNormal \in NormalInputs
    /\ out.uv \in UVInputs

(***************************************************************************)
(* Sub-divided quads.                                                      *)
(***************************************************************************)
\* the edges <<triangle, edge>> of the triangles from index n on
EdgesFrom(ts, n) == { <<t, e>> : t \in n..(numTri(ts) - 1), e \in Edges }

\* the other appended edges with the end points of an edge
QuadTwins(new, n, c) ==
    { d \in EdgesFrom(new, n) :
        d # c /\ EdgeEnds(new, d[1], d[2]) = EdgeEnds(new, c[1], c[2]) }

\* addSubdivQuad with s sub-divisions turned the list ts into the list new
QuadAppended(ts, new, s) ==
    /\ numTri(new) = numTri(ts) + 2 * s * s
    /\ SubSeq(new, 1, numTri(ts)) = ts
    /\ \A c \in EdgesFrom(new, numTri(ts)) :
          LET twins == QuadTwins(new, numTri(ts), c) IN
          IF twins = {} THEN ~isEdgeConnected(new, c[1], c[2])
          ELSE /\ Cardinality(twins) = 1
               /\ \A d \in twins : LinkedTo(new, c[1], c[2], d[2], d[1])

\* C22: addSubdivQuad with s >= 1 sub-divisions appends exactly 2*s*s
\* triangles; every interior edge among them (the diagonal of a sub-quad, an
\* edge shared by two neighbouring sub-quads) is connected to the edge with
\* the same two end points, every edge on the border of the quad is left
\* unconnected, and no triangle that was in the builder before gains or
\* loses a connection.
C22_SubdivQuadLinks ==
    \A q \in QuadInputs, m \in QuadMaterials, s \in QuadSubDivisions :
        QuadAppended(triangles,
                     addSubdivQuad(triangles, q[1], q[2], q[3], q[4], m, s), s)

\* a quad with two sub-divisions is appended to a list with a connected
\* triangle: among the eight new triangles there are border edges and edges
\* shared by neighbouring sub-quads
C22_Witness ==
    /\ \E t \in PickRange(triangles), e \in Edges : isEdgeConnected(triangles, t, e)
    /\ \E q \in QuadInputs, m \in QuadMaterials :
          LET new == addSubdivQuad(triangles, q[1], q[2], q[3], q[4], m, 2) IN
          /\ numTri(new) = numTri(triangles) + 8
          /\ \E c \in EdgesFrom(new, numTri(triangles)) :
                QuadTwins(new, numTri(triangles), c) = {}
          /\ \E c \in EdgesFrom(new, numTri(triangles)) :
                \E d \in QuadTwins(new, numTri(triangles), c) :
                    /\ c[1] \div 2 # d[1] \div 2
                    /\ LinkedTo(new, c[1], c[2], d[2], d[1])

\* the last operation was addSubdivQuad with two sub-divisions
C22_WitnessCalled ==
    /\ last.op = "addSubdivQuad"
    /\ numTri(triangles) >= 8

(***************************************************************************)
(* The manifold of a BaseManifoldWLMesh.                                   *)
(***************************************************************************)
\* the WL.Mesh of submesh s (from 0) of the mesh object
MeshOf(s) == WLMeshes[out.submeshes[s + 1].mesh]

\* the number of triangles of submesh s
TriCountOf(s) == wleIndexCount(MeshOf(s)) \div 3

\* the number of triangles of the submeshes before submesh s
RECURSIVE TrianglesBefore(_)
TrianglesBefore(s) ==
    IF s = 0 THEN 0 ELSE TrianglesBefore(s - 1) + TriCountOf(s - 1)

\* the position of corner c of manifold triangle t
ManifoldCornerPosition(t, c) ==
    LET k == out.premadeManifoldMesh.triVerts[3 * t + c + 1] IN
    SubSeq(out.premadeManifoldMesh.vertPos, 3 * k + 1, 3 * k + 3)

\* the position of corner c of triangle l of submesh s
SubmeshCornerPosition(s, l, c) ==
    MeshOf(s).positions[wleCorner(MeshOf(s), 3 * l + c) + 1]

\* C23: manifoldFromWLE over submeshes whose index counts are multiples of 3
\* returns a manifold whose triangles are those of the submeshes, in submesh
\* order and then in local order; triVerts is as long as the sum of the index
\* counts, every entry of triVerts is smaller than the number of emitted
\* positions, and the submesh map has 2 x (total triangles) entries, those at
\* 2t and 2t+1 the submesh index and the local triangle index of manifold
\* triangle t.
C23_ManifoldFromWLE ==
    out.premadeManifoldMesh # Null
        => LET n     == Len(out.submeshes)
               total == TrianglesBefore(n)
               mesh  == out.premadeManifoldMesh
           IN /\ Len(mesh.triVerts) = 3 * total
              /\ \A k \in 1..Len(mesh.triVerts) :
                    mesh.triVerts[k] >= 0 /\ mesh.triVerts[k] < Len(mesh.vertPos) \div 3
              /\ Len(out.submeshMap.data) = 2 * total
              /\ \A s \in 0..(n - 1) : \A l \in 0..(TriCountOf(s) - 1) :
                    LET t == TrianglesBefore(s) + l IN
                    /\ \A c \in 0..2 :
                          ManifoldCornerPosition(t, c) = SubmeshCornerPosition(s, l, c)
                    /\ out.submeshMap.data[2 * t + 1] = s
                    /\ out.submeshMap.data[2 * t + 2] = l

\* the manifold was made from two submeshes of two triangles each, the second
\* with a repeated packed vertex and positions the first one has as well
C23_Witness ==
    /\ out.premadeManifoldMesh # Null
    /\ Len(out.submeshes) = 2
    /\ out.submeshes[1].mesh = 2
    /\ out.submeshes[2].mesh = 3
    /\ Len(out.premadeManifoldMesh.triVerts) = 12
    /\ Len(out.premadeManifoldMesh.vertPos) = 15

(***************************************************************************)
(* Disposing of a BaseManifoldWLMesh.                                      *)
(***************************************************************************)
\* the WL.Mesh objects the mesh object holds
HeldMeshes(obj) == { obj.submeshes[k].mesh : k \in 1..Len(obj.submeshes) }

\* dispose was called on the mesh object
Disposed(obj) ==
    last.op = "dispose" \/ \E m \in 1..Len(WLMeshes) : obj.destroyed[m] > 0

\* every getSubmesh and getTriBarySubmesh call raises an error
AllLookupsFail(obj) ==
    /\ \A i \in -1..MaxSubmeshes : getSubmesh(obj, i).err # ""
    /\ \A t \in -1..(2 * MaxSubmeshes) : getTriBarySubmesh(obj, t).err # ""

\* C29: dispose destroys each held submesh mesh exactly once, even if it is
\* called repeatedly, and clears the submesh list, the manifold and the
\* submesh map; in every state after dispose submeshCount is 0 and
\* getSubmesh(i) and getTriBarySubmesh(t) raise an error for every i and t,
\* also after the manifoldMesh getter was read again.
C29_DisposeOnce ==
    /\ last.op = "dispose"
           => /\ out.submeshes = <<>>
              /\ out.premadeManifoldMesh = Null
              /\ out.submeshMap = Null
    /\ \A m \in 1..Len(WLMeshes) : out.destroyed[m] <= 1
    /\ Disposed(out)
           => /\ submeshCount(out) = 0
              /\ AllLookupsFail(out)

(***************************************************************************)
(* Adjacency after subDivide4.                                             *)
(***************************************************************************)
\* the two children of triangle t that lie along its edge e
ChildrenAlong(t, e) == { 4 * t + e, 4 * t + NextIdx(e) }

\* edge e of child c is connected to edge oe of a child of o along oe, and
\* the two connected edges have the same end points
InheritedLink(new, c, e, o, oe) ==
    /\ isEdgeConnected(new, c, e)
    /\ getConnectedEdge(new, c, e).edge = oe
    /\ getConnectedEdge(new, c, e).tri \in ChildrenAlong(o, oe)
    /\ EdgeEnds(new, getConnectedEdge(new, c, e).tri, oe) = EdgeEnds(new, c, e)

\* C24: subDivide4 propagates the adjacency: for every connection
\* (T, e) <-> (T', e'), each of the two children of T along e is connected,
\* on its edge e, to the child of T' along e' whose edge e' has the same two
\* end points, whether T and T' were connected with opposite or with equal
\* winding; the corner-child edges of an unconnected edge stay unconnected.
C24_SubDivide4Adjacency ==
    [][ last'.op = "subDivide4" =>
          \A t \in PickRange(triangles), e \in Edges :
              \A c \in ChildrenAlong(t, e) :
                  IF isEdgeConnected(triangles, t, e)
                  THEN InheritedLink(triangles', c, e,
                                     getConnectedEdge(triangles, t, e).tri,
                                     getConnectedEdge(triangles, t, e).edge)
                  ELSE ~isEdgeConnected(triangles', c, e) ]_vars

\* edge e of a and edge e of b are connected to each other and have the same
\* end points
SiblingLink(ts, a, b, e) ==
    /\ LinkedTo(ts, a, e, e, b)
    /\ LinkedTo(ts, b, e, e, a)
    /\ EdgeEnds(ts, a, e) = EdgeEnds(ts, b, e)

\* the number of connected edges of triangle t
ConnectionCount(ts, t) == Cardinality({ e \in Edges : isEdgeConnected(ts, t, e) })

\* C25: after subDivide4 the center child 4t+3 of every original triangle t
\* has its three edges connected to its siblings: edge 0 to edge 0 of the
\* bottom-right child 4t+2, edge 1 to edge 1 of the top child 4t, edge 2 to
\* edge 2 of the bottom-left child 4t+1, each pair of connected edges with
\* the same two midpoints as end points; when the original triangle had no
\* connection, each corner child has exactly that one connection.
C25_CenterChildLinks ==
    [][ last'.op = "subDivide4" =>
          \A t \in PickRange(triangles) :
              /\ SiblingLink(triangles', 4 * t + 3, 4 * t + 2, 0)
              /\ SiblingLink(triangles', 4 * t + 3, 4 * t, 1)
              /\ SiblingLink(triangles', 4 * t + 3, 4 * t + 1, 2)
              /\ ConnectionCount(triangles, t) = 0
                    => \A k \in 0..2 : ConnectionCount(triangles', 4 * t + k) = 1 ]_vars

\* a list with a triangle without connections and a triangle with
\* connections was sub-divided
C25_Witness ==
    /\ last.op = "subDivide4"
    /\ \E t \in 0..(numTri(triangles) \div 4 - 1) :
          \A k \in 0..2 : ConnectionCount(triangles, 4 * t + k) = 1
    /\ \E t \in 0..(numTri(triangles) \div 4 - 1) :
          \E k \in 0..2 : ConnectionCount(triangles, 4 * t + k) > 1

(***************************************************************************)
(* C26: pairwise matching is complete on closed input.                     *)
(***************************************************************************)
\* the edges, other than edge e of t, with the end points of edge e of t
SameEnds(ts, t, e) ==
    { x \in PickRange(ts) \X (0..2) :
        x # <<t, e>> /\ EdgeEnds(ts, x[1], x[2]) = EdgeEnds(ts, t, e) }

NoAdjacency(ts) ==
    \A t \in PickRange(ts), e \in 0..2 : ~isEdgeConnected(ts, t, e)

\* every edge has exactly one edge with its end points, in another triangle
WellFormed(ts) ==
    /\ numTri(ts) > 0
    /\ NoAdjacency(ts)
    /\ \A t \in PickRange(ts), e \in 0..2 :
          /\ Cardinality(SameEnds(ts, t, e)) = 1
          /\ \A x \in SameEnds(ts, t, e) : x[1] # t

AllMatched(before, ts) ==
    /\ numTri(ts) = numTri(before)
    /\ \A t \in PickRange(ts), e \in 0..2 :
          /\ Tri(ts, t).pos = Tri(before, t).pos
          /\ \A x \in SameEnds(before, t, e) :
                getConnectedEdge(ts, t, e) = [edge |-> x[2], tri |-> x[1]]

\* C26: when autoConnectAllEdges is called on a list without adjacency in
\* which every edge shares its two end points with exactly one edge of
\* exactly one other triangle, every edge is afterwards connected to exactly
\* that edge, whatever the order of the triangles and of their corners.
C26_PairwiseComplete ==
    (last.op = "autoConnectAllEdges" /\ WellFormed(out.before))
        => AllMatched(out.before, triangles)

\* the two edges run the same way
EqualWinding(ts, t, e) ==
    LET l == getConnectedEdge(ts, t, e) IN
    getPosition(ts, t, e) = getPosition(ts, l.tri, l.edge)

\* a tetrahedron whose faces are neither in a consistent winding nor all
\* wound alike, connected all around
C26_Witness ==
    /\ last.op = "autoConnectAllEdges"
    /\ WellFormed(out.before)
    /\ numTri(triangles) = MaxClosedTri
    /\ AllMatched(out.before, triangles)
    /\ \E t \in PickRange(triangles), e \in 0..2 : EqualWinding(triangles, t, e)
    /\ \E t \in PickRange(triangles), e \in 0..2 : ~EqualWinding(triangles, t, e)
    /\ getConnectedEdge(triangles, 0, 0).tri = 3

(***************************************************************************)
(* C27: the smoothing groups partition the vertex star.                    *)
(***************************************************************************)
\* the groups of a smoothed corner that hold a pair
GroupsHolding(groups, vsPair) == { g \in 1..Len(groups) : vsPair \in groups[g] }

\* C27: when addSmoothNormals partitions the vertex star of a corner, every
\* <<triangle, corner>> pair of the star is in exactly one of the smoothing
\* groups made for that corner: alone in a new group, added to the one group
\* it matches, or added to the merger of the groups it matches.
C27_StarPartition ==
    last.op = "addSmoothNormals" =>
        \A k \in 1..Len(out.groups) :
            \A vsPair \in getVertexStar(out.before, out.groups[k].corner[1],
                                        out.groups[k].corner[2]) :
                Cardinality(GroupsHolding(out.groups[k].groups, vsPair)) = 1

(***************************************************************************)
(* C28: helpers are indices.                                               *)
(***************************************************************************)
\* C28: after any sequence of addTriangle, addTriangleNoNormals,
\* addSubdivQuad, setTriangleHelpers and subDivide4 calls the helper of every
\* triangle is its index in the triangle list, so a triangle reached through
\* an adjacency link is looked up by its helper in its own slot.
C28_HelpersAreIndices ==
    /\ HelpersAreIndices(triangles)
    /\ \A t \in PickRange(triangles), e \in 0..2 :
          isEdgeConnected(triangles, t, e) =>
              LET otherTri == getConnectedEdge(triangles, t, e).tri IN
              /\ otherTri \in PickRange(triangles)
              /\ Tri(triangles, Tri(triangles, otherTri).helper)
                     = Tri(triangles, otherTri)

\* a subdivided list with adjacency, to which a triangle was added afterwards
C28_Witness ==
    /\ last.op \in { "addTriangle", "addTriangleNoNormals" }
    /\ numTri(triangles) = 5
    /\ isEdgeConnected(triangles, 3, 0)
    /\ Tri(triangles, 4).helper = 4

\* a subdivided quad: the children of its two triangles are linked
C28_WitnessSubdivided ==
    /\ last.op = "subDivide4"
    /\ numTri(triangles) = 8
    /\ \E t \in PickRange(triangles) :
          isEdgeConnected(triangles, t, 0) /\ getConnectedEdge(triangles, t, 0).tri >= 4
    /\ Tri(triangles, 7).helper = 7

(***************************************************************************)
(* C30: the traversals terminate.                                          *)
(***************************************************************************)
Traversing == IF out = NoOut THEN FALSE ELSE ~out.done

Returned == IF out = NoOut THEN FALSE ELSE out.done

\* no triangle was expanded twice, and exactly the visited ones once
ExpandedOnce ==
    out # NoOut =>
        \A t \in PickRange(triangles) :
            out.count[t + 1] = (IF t \in out.visited THEN 1 ELSE 0)

\* C30: the flood fill of autoConnectEdges and the walk of isConnected
\* expand (mark visited and scan) every triangle at most once, whatever
\* cycles the adjacency has, and every traversal that was started returns:
\* its work runs empty.
C30_TraversalsTerminate ==
    /\ [] ExpandedOnce
    /\ Traversing ~> (Returned /\ Len(out.work) = 0)

\* a walk over a cycle of adjacency returned, all three triangles expanded
C30_Witness ==
    /\ Returned
    /\ out.run = "isConnected"
    /\ out.count = <<1, 1, 1>>
    /\ getConnectedEdge(triangles, 0, 0) # NoEdge
    /\ getConnectedEdge(triangles, 0, 0).tri = getConnectedEdge(triangles, 0, 2).tri

\* a flood fill returned after connecting and expanding three triangles
C30_WitnessFlood ==
    /\ Returned
    /\ out.run = "autoConnectEdges"
    /\ out.count = <<1, 1, 1>>
    /\ getConnectedEdge(triangles, 0, 0) # NoEdge

====
